---- MODULE Spec2Model ----
(***************************************************************************)
(* Dataset retrieval and statistics pipeline of the geoapp backend.        *)
(*                                                                         *)
(* Numbers are modelled exactly: a cell of the column store is an integer, *)
(* NaN or a non-numeric text; derived quantities that are fractions        *)
(* (histogram edges, percentiles, fences) are carried as integers in a     *)
(* fixed sub-unit that is named where it is used.  The conversion to       *)
(* 32-bit floats done when the buffer is packed is modelled by its         *)
(* rounding on integers (24-bit significand, ties to even).                *)
(***************************************************************************)
EXTENDS Integers, Sequences, FiniteSets, TLC

VARIABLES datasets, table, stats, req, ret, sdata, hdata, sreq, sres,
          mappings, greq, response, stream, chunks,
          files, tables, records, column_stats, eda_manager, op,
          procs, deleting

\* the state of the retrieval and statistics pipeline
pipeline == <<datasets, table, stats, req, ret, sdata, hdata, sreq, sres,
              mappings, greq, response>>

\* the state of a streaming call
streaming == <<stream, chunks>>

\* the store behind the pipeline and the last call made on it
store == <<files, tables, records, column_stats, eda_manager, op>>

\* the calls in progress: the get_dataset_data calls of the worker threads
\* and the file a delete_file call is deleting
calls == <<procs, deleting>>

\* the state of the other services of the server
services == <<streaming, store, calls>>

vars == <<pipeline, services>>

\* no call of the other services has been made
ServicesIdle ==
    /\ stream = [status |-> "idle"]
    /\ chunks = <<>>
    /\ files = {}
    /\ tables = <<>>
    /\ records = <<>>
    /\ column_stats = <<>>
    /\ eda_manager = FALSE
    /\ op = [name |-> "none"]
    /\ procs = <<>>
    /\ deleting = [file_id |-> "none", datasets |-> {}, all |-> {}]

(***************************************************************************)
(* Bounds of the model                                                     *)
(***************************************************************************)
MaxRows == 2
MaxCols == 3

(***************************************************************************)
(* Values                                                                  *)
(***************************************************************************)
\* numpy NaN: every comparison with it is false
NaN == -9999
\* a non-numeric string held by an object-dtype (VARCHAR) column
Text == -8888
\* "no column" (Python None) for the optional z filter column
None == ""
\* largest magnitude up to which every integer is a float32
TwoPow24 == 16777216
\* an integer a float64 holds exactly and a float32 does not
Big == TwoPow24 + 1

Range(s) == {s[i] : i \in DOMAIN s}

Min(S) == CHOOSE m \in S : \A o \in S : m <= o
Max(S) == CHOOSE m \in S : \A o \in S : m >= o

RECURSIVE SumSeq(_)
SumSeq(s) == IF s = <<>> THEN 0 ELSE Head(s) + SumSeq(Tail(s))

\* numpy elementwise >= and <= on float arrays
Ge(a, b) == a # NaN /\ a >= b
Le(a, b) == a # NaN /\ a <= b

\* ndarray.astype(np.float32) on an integer-valued float64 below 2^25
RoundFloat32(v) ==
    LET a == IF v < 0 THEN 0 - v ELSE v
        r == IF a <= TwoPow24 \/ a % 2 = 0 THEN a
             ELSE IF (a - 1) % 4 = 0 THEN a - 1 ELSE a + 1
    IN  IF v < 0 THEN 0 - r ELSE r

\* the conversion of one cell when the buffer is packed: direct astype for
\* numbers, pd.to_numeric(errors='coerce') for what astype rejects
ToFloat32(v) == IF v = NaN \/ v = Text THEN NaN ELSE RoundFloat32(v)

(***************************************************************************)
(* The column store: one table, its dataset records and stored statistics  *)
(***************************************************************************)
DatasetIds == {"d1", "d2"}
TableCols == {"x", "y", "z", "tag"}
ColNames == TableCols \cup {"q"}

Dtype(c) == IF c = "tag" THEN "object" ELSE "float64"

Row(x, y, z) == [x |-> x, y |-> y, z |-> z, tag |-> Text]

RowSet == { Row(1, 1, 20), Row(2, 2, NaN), Row(1, 2, Big), Row(NaN, 1, 30) }

Scenario1Table == << Row(0, 0, 10), Row(1, 1, 20), Row(2, 2, 30), Row(3, 3, 40) >>

SeqsUpTo(S, n) == UNION { [1..k -> S] : k \in 0..n }

Tables == SeqsUpTo(RowSet, MaxRows) \cup {Scenario1Table}

\* the values of column c in the rows, in row order
Column(rows, c) == [r \in DOMAIN rows |-> rows[r][c]]

ValidOf(col) == SelectSeq(col, LAMBDA v : v # NaN)

\* pandas describe() of the numeric columns as stored in DatasetColumnStats:
\* a record per numeric column with at least one non-null value
DescribeStats(rows) ==
    LET num == {c \in TableCols : Dtype(c) # "object"
                                  /\ ValidOf(Column(rows, c)) # <<>>}
    IN  [c \in num |->
            LET v == Range(ValidOf(Column(rows, c)))
            IN  [min_value |-> Min(v), max_value |-> Max(v),
                 count |-> Len(ValidOf(Column(rows, c)))]]

(***************************************************************************)
(* Requests                                                                *)
(***************************************************************************)
Distinct(s) == \A i, j \in DOMAIN s : i # j => s[i] # s[j]

ColumnLists == {s \in SeqsUpTo(ColNames, MaxCols) : Distinct(s)}

BBoxes == { <<>>, <<0, 3>>, <<1, 2, 1, 2>>, <<5, 6, 5, 6>>,
            <<0, 3, 0, 3, 20, Big>>, <<0, 1, 1, 2, 0, 40>> }

FilterLists == { <<>>, <<"y">>, <<"y", "x">>, <<"x", "y", "z">>,
                 <<"x", "tag", "q">> }

EmptyResult(path) ==
    [buffer |-> <<>>, boundaries |-> <<>>, error |-> "none",
     raised |-> FALSE, path |-> path]

\* `bounding_box and len(bounding_box) in [4, 6]`
UseBox(bbox) == Len(bbox) \in {4, 6}

\* variant: the explicit x and y filter columns are taken in the other order
FilterColumnsSwapped(columns, fcols) ==
    IF Len(fcols) >= 2
    THEN [x |-> fcols[2], y |-> fcols[1],
          z |-> IF Len(fcols) >= 3 THEN fcols[3] ELSE None]
    ELSE [x |-> columns[1], y |-> columns[2],
          z |-> IF Len(columns) >= 3 THEN columns[3] ELSE None]

\* the columns the box is evaluated on; only evaluated where columns[0] and
\* columns[1] exist (MaskFails below covers the other case)
FilterColumnsOf(columns, fcols) ==
    IF Len(fcols) >= 2
    THEN [x |-> fcols[1], y |-> fcols[2],
          z |-> IF Len(fcols) >= 3 THEN fcols[3] ELSE None]
    ELSE [x |-> columns[1], y |-> columns[2],
          z |-> IF Len(columns) >= 3 THEN columns[3] ELSE None]

\* the z predicates apply: `is_3d and z1 is not None and z2 is not None and z_col`
UseZ(bbox, fc) == Len(bbox) = 6 /\ fc.z # None

\* the SELECT fails: empty column list, or a column the table does not have
QueryFails(columns) ==
    columns = <<>> \/ \E i \in DOMAIN columns : columns[i] \notin TableCols

\* building the mask raises: IndexError on columns[1], KeyError on a filter
\* column that was not fetched, TypeError on comparing strings with a float
MaskFails(columns, bbox, fcols) ==
    \/ Len(fcols) < 2 /\ Len(columns) < 2
    \/ LET fc == FilterColumnsOf(columns, fcols)
           used == {fc.x, fc.y} \cup (IF UseZ(bbox, fc) THEN {fc.z} ELSE {})
       IN  \E c \in used : c \notin Range(columns) \/ Dtype(c) = "object"

\* variant: the lower bounds are exclusive
InBoxStrict(row, bbox, fc) ==
    /\ row[fc.x] # NaN /\ row[fc.x] > bbox[1] /\ Le(row[fc.x], bbox[2])
    /\ row[fc.y] # NaN /\ row[fc.y] > bbox[3] /\ Le(row[fc.y], bbox[4])
    /\ UseZ(bbox, fc) => Ge(row[fc.z], bbox[5]) /\ Le(row[fc.z], bbox[6])

\* variant: the x and y predicates are joined with `|`
InBoxAny(row, bbox, fc) ==
    /\ \/ Ge(row[fc.x], bbox[1]) /\ Le(row[fc.x], bbox[2])
       \/ Ge(row[fc.y], bbox[3]) /\ Le(row[fc.y], bbox[4])
    /\ UseZ(bbox, fc) => Ge(row[fc.z], bbox[5]) /\ Le(row[fc.z], bbox[6])

\* the boolean mask of one row
InBox(row, bbox, fc) ==
    /\ Ge(row[fc.x], bbox[1]) /\ Le(row[fc.x], bbox[2])
    /\ Ge(row[fc.y], bbox[3]) /\ Le(row[fc.y], bbox[4])
    /\ UseZ(bbox, fc) => Ge(row[fc.z], bbox[5]) /\ Le(row[fc.z], bbox[6])

\* rows_data[col][mask] for every column: the rows the mask keeps, in order
ApplyMask(rows, bbox, fc) == SelectSeq(rows, LAMBDA row : InBox(row, bbox, fc))

\* variant: the columns are laid one after the other (column-major)
InterleaveColumnMajor(rows, columns) ==
    LET N == Len(rows)
    IN  [p \in 1..(N * Len(columns)) |->
            ToFloat32(rows[((p - 1) % N) + 1][columns[((p - 1) \div N) + 1]])]

\* flat_numpy[i::num_cols] = rows_data[col].astype(float32), for every i
Interleave(rows, columns) ==
    LET K == Len(columns)
    IN  [p \in 1..(Len(rows) * K) |->
            ToFloat32(rows[((p - 1) \div K) + 1][columns[((p - 1) % K) + 1]])]

\* boundaries computed from the fetched data, numeric dtypes only
Boundaries(rows, columns) ==
    LET num == {c \in Range(columns) : Dtype(c) # "object"
                                       /\ ValidOf(Column(rows, c)) # <<>>}
    IN  [c \in num |->
            LET v == ValidOf(Column(rows, c))
            IN  [min_value |-> Min(Range(v)), max_value |-> Max(Range(v)),
                 valid_count |-> Len(v)]]

\* variant: a missing dataset raises out of the fetch
NotFoundRaises == [EmptyResult("not_found") EXCEPT !.raised = TRUE]

\* the return of the `if not dataset` branch
NotFoundReturn == EmptyResult("not_found")

\* variant: the handler re-raises
ExceptRaises == [EmptyResult("exception") EXCEPT !.raised = TRUE]

\* the return of the `except (KeyError, Exception)` handler: the error is
\* printed and the empty pair is returned
ExceptReturn == EmptyResult("exception")

\* EDAManager.get_dataset_data_and_stats_combined
EdaFetch(up, found, rows, columns, bbox, fcols) ==
    \* an unreachable store raises in get_dataset_by_id, inside the try
    IF ~up THEN ExceptReturn
    ELSE IF ~found THEN NotFoundReturn
    ELSE IF QueryFails(columns) THEN ExceptReturn
    ELSE IF Len(rows) = 0 THEN EmptyResult("no_rows")
    ELSE IF UseBox(bbox) /\ MaskFails(columns, bbox, fcols)
         THEN ExceptReturn
    ELSE LET kept == IF UseBox(bbox)
                     THEN ApplyMask(rows, bbox, FilterColumnsOf(columns, fcols))
                     ELSE rows
         IN  IF Len(kept) = 0 THEN EmptyResult("filtered_out")
             ELSE [buffer |-> Interleave(kept, columns),
                   boundaries |-> Boundaries(kept, columns),
                   error |-> "none", raised |-> FALSE, path |-> "ok"]

\* variant: the slice starts at the next column's offset
SliceNext(buffer, i, K) ==
    [j \in 1..(Len(buffer) \div K) |-> buffer[(i % K) + 1 + (j - 1) * K]]

\* all_data[i::K] of get_dataset_data, i counted from 1 here
Slice(buffer, i, K) ==
    [j \in 1..(IF Len(buffer) < i THEN 0 ELSE ((Len(buffer) - i) \div K) + 1)
        |-> buffer[i + (j - 1) * K]]

(***************************************************************************)
(* The fetch of DatabaseManager (database.py): always three columns, the   *)
(* box always on them, boundaries from the stored statistics when no box   *)
(* is given                                                                *)
(***************************************************************************)
\* np.min / np.max of a float array: NaN if any element is NaN
NanMin(col) == IF NaN \in Range(col) THEN NaN ELSE Min(Range(col))
NanMax(col) == IF NaN \in Range(col) THEN NaN ELSE Max(Range(col))

First3(columns) == SubSeq(columns, 1, 3)

\* boundaries of the three fetched columns after a box: NaN is not skipped
\* and valid_count is the number of points
DbBoxBoundaries(rows, columns) ==
    [c \in Range(First3(columns)) |->
        [min_value |-> NanMin(Column(rows, c)),
         max_value |-> NanMax(Column(rows, c)),
         valid_count |-> Len(rows)]]

\* boundaries read from DatasetColumnStats when no box is given
DbStoredBoundaries(st, rows, columns) ==
    [c \in DOMAIN st \cap Range(columns) |->
        [min_value |-> st[c].min_value, max_value |-> st[c].max_value,
         valid_count |-> IF st[c].count # 0 THEN st[c].count ELSE Len(rows)]]

\* the comparisons of the mask raise TypeError on an object column
DbMaskFails(columns, bbox) ==
    \E c \in {columns[1], columns[2]}
             \cup (IF Len(bbox) = 6 THEN {columns[3]} ELSE {}) :
        Dtype(c) = "object"

\* DatabaseManager.get_dataset_data_and_stats_combined
DbFetch(up, found, rows, st, columns, bbox) ==
    IF ~up THEN ExceptReturn
    ELSE IF ~found THEN NotFoundReturn
    ELSE IF Len(columns) < 3 \/ QueryFails(First3(columns)) THEN ExceptReturn
    ELSE IF Len(rows) = 0 THEN EmptyResult("no_rows")
    ELSE IF UseBox(bbox) /\ DbMaskFails(columns, bbox) THEN ExceptReturn
    ELSE LET fc == [x |-> columns[1], y |-> columns[2], z |-> columns[3]]
             kept == IF UseBox(bbox) THEN ApplyMask(rows, bbox, fc) ELSE rows
         IN  IF Len(kept) = 0 THEN EmptyResult("filtered_out")
             \* astype(np.float32) of strings raises ValueError, not coerced
             ELSE IF \E c \in Range(First3(columns)) : Dtype(c) = "object"
                  THEN ExceptReturn
             ELSE [buffer |-> Interleave(kept, First3(columns)),
                   boundaries |-> IF UseBox(bbox)
                                  THEN DbBoxBoundaries(kept, columns)
                                  ELSE DbStoredBoundaries(st, kept, columns),
                   error |-> "none", raised |-> FALSE, path |-> "ok"]

(***************************************************************************)
(* State machine of the fetch                                              *)
(***************************************************************************)
\* one entry of Dataset.column_mappings
Mapping(c, type, coord, field) ==
    [column_name |-> c, column_type |-> type, is_coordinate |-> coord,
     mapped_field |-> field]

\* x, y, z numeric and mapped as the coordinates, tag categorical
StandardMappings ==
    << Mapping("x", 1, TRUE, "x"), Mapping("y", 1, TRUE, "y"),
       Mapping("z", 1, TRUE, "z"), Mapping("tag", 0, FALSE, "") >>

NoGreq == [op |-> "none"]

\* a GetDatasetDataResponse with every field at its default
EmptyResponse(path) ==
    [path |-> path, binary_data |-> <<>>, data_length |-> 0, total_count |-> 0,
     data_boundaries |-> <<>>, histograms |-> <<>>, box_plots |-> <<>>,
     heatmap |-> [kind |-> "heatmap", empty |-> TRUE, raised |-> FALSE],
     num_points |-> 0]

\* three empty arrays: no heatmap input
NoHeatData == [x_data |-> <<>>, y_data |-> <<>>, value_data |-> <<>>]

NoReq == [impl |-> "none", store_up |-> TRUE, dataset_id |-> "d1",
          columns |-> <<>>,
          bounding_box |-> <<>>, filter_columns |-> <<>>]

NoRet == EmptyResult("idle")

Init ==
    /\ datasets = {"d1"}
    /\ table \in Tables
    /\ stats = DescribeStats(table)
    /\ req = NoReq
    /\ ret = NoRet
    /\ sdata = <<>>
    /\ hdata = NoHeatData
    /\ sreq = [op |-> "none", num_bins |-> 0]
    /\ sres = [kind |-> "none", empty |-> TRUE]
    /\ mappings = StandardMappings
    /\ greq = NoGreq
    /\ response = EmptyResponse("idle")
    /\ ServicesIdle

GetDatasetDataAndStatsCombined ==
    /\ req.impl = "none"
    /\ \E up \in BOOLEAN, id \in DatasetIds, columns \in ColumnLists,
          bbox \in BBoxes, fcols \in FilterLists :
          /\ req' = [impl |-> "eda", store_up |-> up, dataset_id |-> id,
                     columns |-> columns, bounding_box |-> bbox,
                     filter_columns |-> fcols]
          /\ ret' = EdaFetch(up, id \in datasets, table, columns, bbox, fcols)
          /\ UNCHANGED <<datasets, table, stats, sdata, hdata, sreq, sres,
                       mappings, greq, response>>
    /\ UNCHANGED services

DbGetDatasetDataAndStatsCombined ==
    /\ req.impl = "none"
    /\ \E up \in BOOLEAN, id \in DatasetIds, columns \in ColumnLists,
          bbox \in BBoxes :
          /\ req' = [impl |-> "db", store_up |-> up, dataset_id |-> id,
                     columns |-> columns, bounding_box |-> bbox,
                     filter_columns |-> <<>>]
          /\ ret' = DbFetch(up, id \in datasets, table, stats, columns, bbox)
          /\ UNCHANGED <<datasets, table, stats, sdata, hdata, sreq, sres,
                       mappings, greq, response>>
    /\ UNCHANGED services

Next ==
    \/ GetDatasetDataAndStatsCombined
    \/ DbGetDatasetDataAndStatsCombined

Spec == Init /\ [][Next]_vars


(***************************************************************************)
(* StatisticsEngine: compute_histogram and compute_boxplot                 *)
(***************************************************************************)
MaxLen == 4
MaxBins == 5

StatValues == {1, 2, 4, 100, NaN}

Scenario3Data == <<1, 2, 3, 4, 5, 6, 7, 8, 9, 10>>
Scenario4Data == <<1, 2, 3, 4, 5, 100>>

\* a column holding one value three times; 3 * 11184814 is not a float32
ConstantData == <<11184814, 11184814, 11184814>>

StatInputs ==
    SeqsUpTo(StatValues, MaxLen) \cup {Scenario3Data, Scenario4Data, ConstantData}

\* the explicit empty result `{}`
EmptyStat(kind) == [kind |-> kind, empty |-> TRUE, raised |-> FALSE]

\* variant: the exception leaves the function
StatExceptRaises(kind) == [kind |-> kind, empty |-> TRUE, raised |-> TRUE]

\* `except Exception`: the error is printed and `{}` returned
StatExcept(kind) == EmptyStat(kind)

\* np.histogram's range: (min, max), widened by 0.5 on both sides when
\* min = max.  In halves.
HistRange2(data) ==
    LET mn == Min(Range(data))
        mx == Max(Range(data))
    IN  IF mn = mx THEN [lo |-> 2 * mn - 1, hi |-> 2 * mx + 1]
        ELSE [lo |-> 2 * mn, hi |-> 2 * mx]

\* variant: the edges are stepped by range/(n+1)
HistEdgesShort(data, n) ==
    LET rg == HistRange2(data)
    IN  [i \in 1..(n + 1) |->
            ((n + 1) * n * rg.lo + (i - 1) * n * (rg.hi - rg.lo)) \div (n + 1)]

\* np.linspace(first_edge, last_edge, n + 1), in units of 1/(2n)
HistEdges(data, n) ==
    LET rg == HistRange2(data)
    IN  [i \in 1..(n + 1) |-> n * rg.lo + (i - 1) * (rg.hi - rg.lo)]

\* variant: the last bin is half-open like the others
HistBinHalfOpen(v, data, n) ==
    LET rg == HistRange2(data)
    IN  ((n * (2 * v - rg.lo)) \div (rg.hi - rg.lo)) + 1

\* the bin of a value, counted from 1: floor of the scaled offset, the
\* right edge of the range belonging to the last bin
HistBin(v, data, n) ==
    LET rg == HistRange2(data)
        f == (n * (2 * v - rg.lo)) \div (rg.hi - rg.lo)
    IN  IF f = n THEN n ELSE f + 1

\* EDAManager.compute_histogram
Histogram(raw, num_bins) ==
    IF Len(raw) = 0 THEN EmptyStat("histogram")
    ELSE LET data == ValidOf(raw)
         IN  IF Len(data) = 0 THEN EmptyStat("histogram")
             \* np.histogram raises ValueError for bins < 1; caught
             ELSE IF num_bins < 1 THEN StatExcept("histogram")
             ELSE LET bins == [k \in DOMAIN data |-> HistBin(data[k], data, num_bins)]
                  IN
                  [kind |-> "histogram", empty |-> FALSE, raised |-> FALSE,
                   bin_counts |->
                      [b \in 1..num_bins |->
                          Cardinality({k \in DOMAIN data : bins[k] = b})],
                   bin_edges |-> HistEdges(data, num_bins),
                   edge_unit |-> 2 * num_bins,
                   num_bins |-> num_bins,
                   min_value |-> Min(Range(data)),
                   max_value |-> Max(Range(data)),
                   total_count |-> Len(data)]

\* variant: the 'lower' method, without interpolation
PercentileLower8(sorted, k) ==
    8 * sorted[(((Len(sorted) - 1) * k) \div 4) + 1]

\* np.percentile(data, 25 * k), linear interpolation between the two
\* nearest ranks of the sorted data.  In eighths.
Percentile8(sorted, k) ==
    LET h == (Len(sorted) - 1) * k
        j == (h \div 4) + 1
        fr == h % 4
    IN  IF fr = 0 THEN 8 * sorted[j]
        ELSE 2 * (4 * sorted[j] + fr * (sorted[j + 1] - sorted[j]))

RECURSIVE Pow2(_)
Pow2(k) == IF k = 0 THEN 1 ELSE 2 * Pow2(k - 1)

\* p / q rounded to the nearest integer, ties to even
RoundHalfEven(p, q) ==
    LET f == p \div q
        r == p % q
    IN  IF 2 * r < q THEN f
        ELSE IF 2 * r > q THEN f + 1
        ELSE IF f % 2 = 0 THEN f ELSE f + 1

\* the spacing of the float32 numbers around the magnitude a >= 0
RECURSIVE Ulp(_)
Ulp(a) == IF a < TwoPow24 THEN 1 ELSE 2 * Ulp(a \div 2)

\* a + b of two integer-valued float32 numbers, rounded to float32
Float32Add(a, b) ==
    LET v == a + b
        m == IF v < 0 THEN 0 - v ELSE v
        r == Ulp(m) * RoundHalfEven(m, Ulp(m))
    IN  IF v < 0 THEN 0 - r ELSE r

\* np.add.reduce over a float32 array of fewer than eight elements: the
\* elements are added in order, each partial sum rounded to float32
RECURSIVE Float32Sum(_, _)
Float32Sum(data, acc) ==
    IF data = <<>> THEN acc
    ELSE Float32Sum(Tail(data), Float32Add(acc, Head(data)))

\* a dyadic rational num / 2^shift in lowest terms
RECURSIVE Dyadic(_, _)
Dyadic(num, shift) ==
    IF shift > 0 /\ num % 2 = 0 THEN Dyadic(num \div 2, shift - 1)
    ELSE [num |-> num, shift |-> shift]

\* the least k >= 0 with s * 2^k >= 2^23 * n
RECURSIVE UpShift(_, _, _)
UpShift(s, n, k) ==
    IF s * Pow2(k) >= (TwoPow24 \div 2) * n THEN k ELSE UpShift(s, n, k + 1)

\* s / n of a float32 s >= 0 by a count n >= 1, rounded to float32: the
\* quotient is rounded to 24 significant bits, ties to even
Float32Div(s, n) ==
    IF s = 0 THEN Dyadic(0, 0)
    ELSE IF s >= TwoPow24 * n
         THEN LET u == Ulp(s \div n)
              IN  Dyadic(u * RoundHalfEven(s, n * u), 0)
         ELSE LET k == UpShift(s, n, 0)
              IN  Dyadic(RoundHalfEven(s * Pow2(k), n), k)

\* np.mean of a float32 array: the float32 sum divided by the count
Float32Mean(data) == Float32Div(Float32Sum(data, 0), Len(data))

\* variant: no value is taken to lie within the fences
NonOutliersNone(data, lower_fence, upper_fence) == <<>>

\* the values within [lower_fence, upper_fence], the fences in eighths
NonOutliers(data, lower_fence, upper_fence) ==
    SelectSeq(data, LAMBDA v : 8 * v >= lower_fence /\ 8 * v <= upper_fence)

\* EDAManager.compute_boxplot over a float32 column with non-negative
\* values; q1, median, q3, iqr, the fences, min and max in eighths, the
\* mean a dyadic rational
Boxplot(raw) ==
    IF Len(raw) = 0 THEN EmptyStat("boxplot")
    ELSE LET data == ValidOf(raw)
         IN  IF Len(data) = 0 THEN EmptyStat("boxplot")
             ELSE
             LET sorted == SortSeq(data, LAMBDA a, b : a < b)
                 q1 == Percentile8(sorted, 1)
                 median == Percentile8(sorted, 2)
                 q3 == Percentile8(sorted, 3)
                 iqr == q3 - q1
                 lower_fence == q1 - (3 * iqr) \div 2
                 upper_fence == q3 + (3 * iqr) \div 2
                 outliers == SelectSeq(data, LAMBDA v :
                                8 * v < lower_fence \/ 8 * v > upper_fence)
                 non_outliers == NonOutliers(data, lower_fence, upper_fence)
                 base == IF Len(non_outliers) > 0 THEN non_outliers ELSE data
             IN  [kind |-> "boxplot", empty |-> FALSE, raised |-> FALSE,
                  min |-> 8 * Min(Range(base)),
                  q1 |-> q1, median |-> median, q3 |-> q3,
                  max |-> 8 * Max(Range(base)),
                  mean |-> Float32Mean(data),
                  outliers |-> outliers,
                  lower_fence |-> lower_fence, upper_fence |-> upper_fence,
                  iqr |-> iqr, total_count |-> Len(data)]

(***************************************************************************)
(* StatisticsEngine: compute_heatmap.  The coordinates are small integers  *)
(* and the grid sizes small, so that every quotient the code takes in      *)
(* floating point has the floor of the exact quotient.                     *)
(***************************************************************************)
MaxPts == 3
MaxGrid == 4

HeatPoint(x, y, v) == [x |-> x, y |-> y, v |-> v]

HeatPoints ==
    { HeatPoint(0, 0, 10), HeatPoint(1, 0, 20), HeatPoint(3, 3, 10),
      HeatPoint(3, 1, 20), HeatPoint(NaN, 1, 10), HeatPoint(1, 1, NaN) }

\* x, y and value arrays of different lengths
RaggedInputs ==
    { [x_data |-> <<1>>, y_data |-> <<1, 3>>, value_data |-> <<10, 20>>],
      [x_data |-> <<0, 1, 3>>, y_data |-> <<0, 1>>, value_data |-> <<10, 20, 10>>],
      [x_data |-> <<0, 1>>, y_data |-> <<0, 1>>, value_data |-> <<10>>],
      [x_data |-> <<0, 1>>, y_data |-> <<0, 1>>, value_data |-> <<>>] }

HeatInputs ==
    { [x_data |-> Column(rows, "x"), y_data |-> Column(rows, "y"),
       value_data |-> Column(rows, "v")] : rows \in SeqsUpTo(HeatPoints, MaxPts) }
    \cup RaggedInputs

\* what ndarray.astype(int) makes of NaN is left to the platform's
\* conversion instruction: the least integer, zero or the greatest integer
NanCasts == {"min", "zero", "max"}

IntMax == 2147483647

NanToInt(nan_cast) ==
    CASE nan_cast = "min" -> 0 - IntMax
      [] nan_cast = "zero" -> 0
      [] nan_cast = "max" -> IntMax

\* variant: the index is not clipped
ClipNone(i, lo, hi) == i

\* np.clip(i, lo, hi) = minimum(maximum(i, lo), hi)
Clip(i, lo, hi) ==
    LET a == IF i < lo THEN lo ELSE i
    IN  IF a > hi THEN hi ELSE a

\* np.floor((v - min) / bin_size).astype(int) with bin_size =
\* (max - min) / grid_size; for max = min the quotient is 0.0 / 0.0 = NaN
BinOf(v, mn, mx, grid_size, nan_cast) ==
    IF mx = mn THEN NanToInt(nan_cast)
    ELSE ((v - mn) * grid_size) \div (mx - mn)

\* the positions of s that are in the set S, ascending
Positions(s, S) ==
    SelectSeq([i \in 1..Len(s) |-> i], LAMBDA i : i \in S)

RECURSIVE GCD(_, _)
GCD(a, b) == IF b = 0 THEN a ELSE GCD(b, a % b)

\* num / den in lowest terms, den > 0 and num >= 0
Frac(num, den) ==
    LET g == GCD(num, den)
    IN  [num |-> num \div g, den |-> den \div g]

FracLe(a, b) == a.num * b.den <= b.num * a.den

\* variant: a cell aggregates only the first row that falls into it
CellRowsFirst(keys, k) ==
    {CHOOSE i \in DOMAIN keys : keys[i] = k}

\* the rows aggregated under the dictionary key k
CellRows(keys, k) == {i \in DOMAIN keys : keys[i] = k}

\* EDAManager.compute_heatmap over arrays of non-negative values.  The
\* cells are in the order in which their keys were first met; avg_value
\* and the bin sizes are fractions; divided_by_zero records that an array
\* was divided by a bin size of 0.0.
Heatmap(x_data, y_data, value_data, x_column, y_column, value_column, grid_size, nan_cast) ==
    IF Len(x_data) = 0 \/ Len(y_data) = 0 \/ Len(value_data) = 0
    THEN EmptyStat("heatmap")
    \* arrays of different lengths: the mask cannot be formed or applied
    ELSE IF Len(x_data) # Len(y_data) \/ Len(y_data) # Len(value_data)
    THEN StatExcept("heatmap")
    ELSE
    LET mask == Positions(x_data, {i \in DOMAIN x_data : /\ x_data[i] # NaN
                                                         /\ y_data[i] # NaN
                                                         /\ value_data[i] # NaN})
        x == [j \in DOMAIN mask |-> x_data[mask[j]]]
        y == [j \in DOMAIN mask |-> y_data[mask[j]]]
        value == [j \in DOMAIN mask |-> value_data[mask[j]]]
    IN  IF Len(x) = 0 THEN EmptyStat("heatmap")
        \* ZeroDivisionError of the Python division by grid_size
        ELSE IF grid_size = 0 THEN StatExcept("heatmap")
        ELSE
        LET min_x == Min(Range(x))
            max_x == Max(Range(x))
            min_y == Min(Range(y))
            max_y == Max(Range(y))
            x_bins == [j \in DOMAIN x |->
                         Clip(BinOf(x[j], min_x, max_x, grid_size, nan_cast),
                              0, grid_size - 1)]
            y_bins == [j \in DOMAIN y |->
                         Clip(BinOf(y[j], min_y, max_y, grid_size, nan_cast),
                              0, grid_size - 1)]
            keys == [j \in DOMAIN x |-> <<x_bins[j], y_bins[j]>>]
            first == Positions(keys, {j \in DOMAIN keys :
                                        \A h \in 1..(j - 1) : keys[h] # keys[j]})
            cells == [c \in DOMAIN first |->
                        LET k == keys[first[c]]
                            in_cell == Positions(keys, CellRows(keys, k))
                            total == SumSeq([j \in DOMAIN in_cell |->
                                                value[in_cell[j]]])
                        IN  [x_index |-> k[1], y_index |-> k[2],
                             avg_value |-> Frac(total, Len(in_cell)),
                             count |-> Len(in_cell)]]
            avg_values == {cells[c].avg_value : c \in DOMAIN cells}
        IN  [kind |-> "heatmap", empty |-> FALSE, raised |-> FALSE,
             cells |-> cells,
             grid_size_x |-> grid_size, grid_size_y |-> grid_size,
             min_value |-> CHOOSE a \in avg_values :
                              \A b \in avg_values : FracLe(a, b),
             max_value |-> CHOOSE a \in avg_values :
                              \A b \in avg_values : FracLe(b, a),
             x_bin_size |-> Frac(max_x - min_x, grid_size),
             y_bin_size |-> Frac(max_y - min_y, grid_size),
             min_x |-> min_x, max_x |-> max_x,
             min_y |-> min_y, max_y |-> max_y,
             x_column |-> x_column, y_column |-> y_column,
             value_column |-> value_column,
             divided_by_zero |-> (max_x = min_x \/ max_y = min_y)]

NoStat == EmptyStat("none")

InitStats ==
    /\ datasets = {"d1"}
    /\ table = <<>>
    /\ stats = DescribeStats(table)
    /\ req = NoReq
    /\ ret = NoRet
    /\ \/ sdata \in StatInputs /\ hdata = NoHeatData
       \/ sdata = <<>> /\ hdata \in HeatInputs
    /\ sreq = [op |-> "none", num_bins |-> 0]
    /\ sres = NoStat
    /\ mappings = StandardMappings
    /\ greq = NoGreq
    /\ response = EmptyResponse("idle")
    /\ ServicesIdle

ComputeHistogram ==
    /\ sreq.op = "none"
    /\ \E num_bins \in 0..MaxBins :
          /\ sreq' = [op |-> "histogram", num_bins |-> num_bins]
          /\ sres' = Histogram(sdata, num_bins)
    /\ UNCHANGED <<datasets, table, stats, req, ret, sdata, hdata,
                 mappings, greq, response>>
    /\ UNCHANGED services

ComputeBoxplot ==
    /\ sreq.op = "none"
    /\ sreq' = [op |-> "boxplot", num_bins |-> 0]
    /\ sres' = Boxplot(sdata)
    /\ UNCHANGED <<datasets, table, stats, req, ret, sdata, hdata,
                 mappings, greq, response>>
    /\ UNCHANGED services

ComputeHeatmap ==
    /\ sreq.op = "none"
    /\ \E grid_size \in 0..MaxGrid, nan_cast \in NanCasts :
          /\ sreq' = [op |-> "heatmap", num_bins |-> 0,
                      grid_size |-> grid_size, nan_cast |-> nan_cast]
          /\ sres' = Heatmap(hdata.x_data, hdata.y_data, hdata.value_data,
                             "x", "y", "z", grid_size, nan_cast)
    /\ UNCHANGED <<datasets, table, stats, req, ret, sdata, hdata,
                 mappings, greq, response>>
    /\ UNCHANGED services

NextStats ==
    \/ ComputeHistogram
    \/ ComputeBoxplot
    \/ ComputeHeatmap

SpecStats == InitStats /\ [][NextStats]_vars

(***************************************************************************)
(* EDAManager.get_dataset_data: the visualization fetch, the statistics    *)
(* fetch over every numeric column, and the statistics of its slices       *)
(***************************************************************************)
MappingChoices ==
    { <<>>,
      StandardMappings,
      \* the numeric columns in another order than the visualization columns
      << Mapping("tag", 0, FALSE, ""), Mapping("z", 1, TRUE, "z"),
         Mapping("y", 1, TRUE, "y"), Mapping("x", 1, TRUE, "x") >>,
      \* no column flagged numeric
      << Mapping("tag", 0, FALSE, "") >>,
      \* two numeric columns
      << Mapping("x", 1, TRUE, "x"), Mapping("y", 1, TRUE, "y"),
         Mapping("z", 0, FALSE, ""), Mapping("tag", 0, FALSE, "") >>,
      \* numeric columns without coordinate flags
      << Mapping("x", 1, FALSE, ""), Mapping("y", 1, FALSE, ""),
         Mapping("z", 1, FALSE, "") >>,
      \* the coordinates x and y mapped to each other's column
      << Mapping("x", 1, TRUE, "y"), Mapping("y", 1, TRUE, "x"),
         Mapping("z", 1, TRUE, "z") >> }

\* request.bounding_box: none, a 2D box, a box that keeps no row, a 3D box
DataBBoxes == { <<>>, <<1, 2, 1, 2>>, <<5, 6, 5, 6>>, <<0, 3, 0, 3, 20, Big>> }

\* request.columns: none, the coordinates, a categorical column first, two
\* columns, a column the table does not have
VizLists ==
    { <<>>, <<"y", "x", "z">>, <<"tag", "y", "z">>, <<"x", "y">>,
      <<"q", "y", "z">> }

\* the tables of the datasets asked for
DataRows == { Row(1, 1, 20), Row(2, 2, NaN), Row(1, 2, Big) }
DataTables == SeqsUpTo(DataRows, MaxRows) \cup {Scenario1Table}

\* num_bins and grid_size passed by get_dataset_data
StatBins == 30
StatGrid == 50

\* `list(request.columns) if request.columns else ["x", "y", "z"]`
VizColumns(columns) == IF columns = <<>> THEN <<"x", "y", "z">> ELSE columns

\* the names of the mappings of column_type 1, in mapping order
NumericColumns(maps) ==
    LET num == SelectSeq(maps, LAMBDA m : m.column_type = 1)
    IN  [i \in DOMAIN num |-> num[i].column_name]

\* coord_columns.get(field, fallback): the last mapping flagged as this
\* coordinate wins
CoordColumn(maps, field, fallback) ==
    LET at == {i \in DOMAIN maps :
                 maps[i].is_coordinate /\ maps[i].mapped_field = field}
    IN  IF at = {} THEN fallback ELSE maps[Max(at)].column_name

FilterColumnsForBbox(maps, viz) ==
    << CoordColumn(maps, "x", IF Len(viz) > 0 THEN viz[1] ELSE "x"),
       CoordColumn(maps, "y", IF Len(viz) > 1 THEN viz[2] ELSE "y"),
       CoordColumn(maps, "z", IF Len(viz) > 2 THEN viz[3] ELSE "z") >>

RECURSIVE Log2(_)
Log2(v) == IF v < 2 THEN 0 ELSE 1 + Log2(v \div 2)

\* the bit pattern of the quiet NaN, 0x7FC00000
NaNBits == 2143289344

\* the IEEE 754 single-precision bit pattern of a float32 that is NaN or a
\* non-negative integer
Float32Bits(v) ==
    IF v = NaN THEN NaNBits
    ELSE IF v = 0 THEN 0
    ELSE LET e == Log2(v)
             m == IF e <= 23 THEN v * Pow2(23 - e) ELSE v \div Pow2(e - 23)
         IN  (e + 127) * Pow2(23) + (m - Pow2(23))

\* ndarray.tobytes() of a float32 array: four bytes per value, the least
\* significant first
ToBytes(data) ==
    LET bits == [k \in DOMAIN data |-> Float32Bits(data[k])]
        place == <<1, 256, 65536, 16777216>>
    IN  [p \in 1..(4 * Len(data)) |->
            (bits[((p - 1) \div 4) + 1] \div place[((p - 1) % 4) + 1]) % 256]

\* variant: one point per value
PointCountPerValue(data) == Len(data)

\* `len(data) // 3`
PointCount(data) == Len(data) \div 3

\* variant: the statistics are computed whatever was fetched
StatisticsAlways(all_data, numeric) == TRUE

\* `if len(all_data) > 0` and not `len(all_numeric_columns) == 0`
StatisticsComputed(all_data, numeric) == Len(all_data) > 0 /\ Len(numeric) # 0

\* list.index(c) counted from 1 if c is in the list, else the fallback
IndexOr(numeric, c, fallback) ==
    IF c \in Range(numeric)
    THEN Min({i \in DOMAIN numeric : numeric[i] = c})
    ELSE fallback

\* response.histograms: one entry per numeric column whose histogram is
\* not empty
HistogramsOf(all_data, numeric) ==
    LET K == Len(numeric)
        hist == [i \in DOMAIN numeric |->
                    Histogram(Slice(all_data, i, K), StatBins)]
        kept == {i \in DOMAIN numeric : ~hist[i].empty}
    IN  [c \in {numeric[i] : i \in kept} |->
            hist[Min({i \in kept : numeric[i] = c})]]

\* response.box_plots: the box plots that are not empty, in column order
BoxPlotsOf(all_data, numeric) ==
    LET K == Len(numeric)
        box == [i \in DOMAIN numeric |-> Boxplot(Slice(all_data, i, K))]
        at == Positions(numeric, {i \in DOMAIN numeric : ~box[i].empty})
    IN  [j \in DOMAIN at |->
            [column_name |-> numeric[at[j]], plot |-> box[at[j]]]]

\* response.heatmap: set when there are three visualization columns and the
\* heatmap has cells
HeatmapOf(all_data, numeric, viz, nan_cast) ==
    IF Len(viz) < 3 THEN EmptyStat("heatmap")
    ELSE LET K == Len(numeric)
             x_idx == IndexOr(numeric, viz[1], 1)
             y_idx == IndexOr(numeric, viz[2], 2)
             z_idx == IndexOr(numeric, viz[3], 3)
         IN  Heatmap(Slice(all_data, x_idx, K), Slice(all_data, y_idx, K),
                     Slice(all_data, z_idx, K), viz[1], viz[2], viz[3],
                     StatGrid, nan_cast)

\* the response get_dataset_data builds from the results of its two fetches
DatasetDataReply(data, all, viz, numeric, nan_cast) ==
    LET base == [path |-> "ok",
                 binary_data |-> ToBytes(data.buffer),
                 data_length |-> Len(data.buffer),
                 total_count |-> PointCount(data.buffer),
                 data_boundaries |-> data.boundaries,
                 histograms |-> <<>>, box_plots |-> <<>>,
                 heatmap |-> EmptyStat("heatmap"),
                 \* the local num_points; computed with the statistics only
                 num_points |-> 0]
    IN  IF data.raised \/ all.raised THEN EmptyResponse("exception")
        ELSE IF ~StatisticsComputed(all.buffer, numeric) THEN base
        \* ZeroDivisionError of len(all_data) // len(all_numeric_columns)
        ELSE IF Len(numeric) = 0 THEN EmptyResponse("exception")
        ELSE [base EXCEPT
                !.num_points = Len(all.buffer) \div Len(numeric),
                !.histograms = HistogramsOf(all.buffer, numeric),
                !.box_plots = BoxPlotsOf(all.buffer, numeric),
                !.heatmap = HeatmapOf(all.buffer, numeric, viz, nan_cast)]

\* EDAManager.get_dataset_data
GetDatasetDataResponse(up, found, maps, rows, columns, bbox, nan_cast) ==
    \* an unreachable store raises in get_dataset_by_id; caught at the end
    IF ~up THEN EmptyResponse("exception")
    ELSE IF ~found THEN EmptyResponse("not_found")
    ELSE
    LET viz == VizColumns(columns)
        numeric == NumericColumns(maps)
        fcols == FilterColumnsForBbox(maps, viz)
        data == EdaFetch(up, found, rows, viz, bbox, <<>>)
        all == EdaFetch(up, found, rows, numeric, bbox, fcols)
    IN  DatasetDataReply(data, all, viz, numeric, nan_cast)

InitData ==
    /\ datasets = {"d1"}
    /\ table \in DataTables
    /\ stats = DescribeStats(table)
    /\ req = NoReq
    /\ ret = NoRet
    /\ sdata = <<>>
    /\ hdata = NoHeatData
    /\ sreq = [op |-> "none", num_bins |-> 0]
    /\ sres = NoStat
    /\ mappings \in MappingChoices
    /\ greq = NoGreq
    /\ response = EmptyResponse("idle")
    /\ ServicesIdle

GetDatasetData ==
    /\ greq.op = "none"
    /\ \E up \in BOOLEAN, id \in DatasetIds, columns \in VizLists,
          bbox \in DataBBoxes, nan_cast \in NanCasts :
          /\ greq' = [op |-> "get_dataset_data", store_up |-> up,
                      dataset_id |-> id, columns |-> columns,
                      bounding_box |-> bbox, nan_cast |-> nan_cast]
          /\ response' = GetDatasetDataResponse(up, id \in datasets, mappings,
                                                table, columns, bbox, nan_cast)
    /\ UNCHANGED <<datasets, table, stats, req, ret, sdata, hdata, sreq, sres,
                   mappings>>
    /\ UNCHANGED services

NextData == GetDatasetData

SpecData == InitData /\ [][NextData]_vars

(***************************************************************************)
(* DataGenerator.get_batch_data_columnar_streamed: the points are          *)
(* generated first and then yielded in chunks, one chunk per step of the   *)
(* generator                                                               *)
(***************************************************************************)
\* the streams asked for hold up to MaxChunks full chunks and one point
MaxChunks == 2

\* `chunk_size = 25000`
ChunkSize == 25000

\* request.max_points: around every multiple of the chunk size
PointRequests == {k * ChunkSize + d : k \in 0..MaxChunks, d \in {-1, 0, 1}}

\* request.resolution: unset, a grid of one point, the default, a fine grid,
\* and a negative number, which np.linspace rejects
Resolutions == {0, 1, 20, 200, -1}

\* int(math.sqrt(n))
Isqrt(n) == CHOOSE r \in 0..n : r * r <= n /\ (r + 1) * (r + 1) > n

\* len(columnar_data['x']) of generate_columnar_data: the flattened grid
\* sliced by [:max_points]
GeneratedPoints(max_points, resolution) ==
    LET res == IF resolution = 0 THEN 20 ELSE resolution
        actual_resolution ==
            IF max_points <= res * res THEN res
            ELSE Max({res, Isqrt(max_points) + 1})
        grid == actual_resolution * actual_resolution
    IN  IF max_points >= 0 THEN Min({max_points, grid})
        ELSE Max({0, grid + max_points})

\* generate_columnar_data raises: ValueError of np.linspace for a negative
\* number of samples, ZeroDivisionError of actual_count / generation_time
\* when the clock has not advanced between the two readings of time.time()
GenerationFails(resolution, clock_advanced) ==
    resolution < 0 \/ ~clock_advanced

\* `(total_points + chunk_size - 1) // chunk_size`
TotalChunks(total_points) == (total_points + ChunkSize - 1) \div ChunkSize

\* the ColumnarDataChunk built in one pass of the loop
Chunk(chunk_index, total_chunks, total_points) ==
    LET start_idx == chunk_index * ChunkSize
        end_idx == Min({start_idx + ChunkSize, total_points})
    IN  [chunk_number |-> chunk_index,
         total_chunks |-> total_chunks,
         points_in_chunk |-> end_idx - start_idx,
         is_final_chunk |-> (chunk_index = total_chunks - 1),
         start_idx |-> start_idx, end_idx |-> end_idx]

InitStream ==
    /\ datasets = {"d1"}
    /\ table = <<>>
    /\ stats = DescribeStats(table)
    /\ req = NoReq
    /\ ret = NoRet
    /\ sdata = <<>>
    /\ hdata = NoHeatData
    /\ sreq = [op |-> "none", num_bins |-> 0]
    /\ sres = NoStat
    /\ mappings = StandardMappings
    /\ greq = NoGreq
    /\ response = EmptyResponse("idle")
    /\ ServicesIdle

\* the call up to the loop: the data is generated and the chunks counted;
\* an exception is caught by the handler, which sets the status INTERNAL
StartStream ==
    /\ stream.status = "idle"
    /\ \E max_points \in PointRequests, resolution \in Resolutions,
          clock_advanced \in BOOLEAN :
          LET total_points == GeneratedPoints(max_points, resolution)
          IN  stream' =
                IF GenerationFails(resolution, clock_advanced)
                THEN [status |-> "error", max_points |-> max_points,
                      resolution |-> resolution, total_points |-> 0,
                      total_chunks |-> 0, chunk_index |-> 0]
                ELSE [status |-> "streaming", max_points |-> max_points,
                      resolution |-> resolution,
                      total_points |-> total_points,
                      total_chunks |-> TotalChunks(total_points),
                      chunk_index |-> 0]
    /\ UNCHANGED <<chunks, pipeline, store, calls>>

\* one pass of `for chunk_index in range(total_chunks)`, up to its yield
YieldChunk ==
    /\ stream.status = "streaming"
    /\ stream.chunk_index < stream.total_chunks
    /\ chunks' = Append(chunks, Chunk(stream.chunk_index, stream.total_chunks,
                                      stream.total_points))
    /\ stream' = [stream EXCEPT !.chunk_index = @ + 1]
    /\ UNCHANGED <<pipeline, store, calls>>

\* the loop is exhausted and the generator returns
FinishStream ==
    /\ stream.status = "streaming"
    /\ stream.chunk_index = stream.total_chunks
    /\ stream' = [stream EXCEPT !.status = "done"]
    /\ UNCHANGED <<chunks, pipeline, store, calls>>

NextStream ==
    \/ StartStream
    \/ YieldChunk
    \/ FinishStream

SpecStream == InitStream /\ [][NextStream]_vars

(***************************************************************************)
(* The store behind the pipeline: File records, one DuckDB table per       *)
(* file, Dataset records with their column mappings and the                *)
(* DatasetColumnStats of each dataset; the data manipulation operations,   *)
(* rename_file_column and delete_file acting on it.  A cell is a number    *)
(* or NULL; a VARCHAR cell holds the text of its number.                   *)
(***************************************************************************)
\* the operations performed one after the other in a run
MaxOps == 2

\* SQL NULL
Null == -7777

FileIds == {"f1", "f2"}

\* `data_<file_id>` does not exist
NoTable == [exists |-> FALSE, columns |-> <<>>, types |-> <<>>,
            rows |-> <<>>, rowids |-> <<>>]

XY(x, y) == [x |-> x, y |-> y]

\* a table as imported from a CSV file with the numeric columns x and y;
\* the rowid of a row is its position, counted from 0
Imported(rows) ==
    [exists |-> TRUE, columns |-> <<"x", "y">>,
     types |-> [c \in {"x", "y"} |-> "DOUBLE"],
     rows |-> rows, rowids |-> [r \in DOMAIN rows |-> r - 1]]

FileTables ==
    { Imported(<< XY(1, 1), XY(2, 2) >>), Imported(<< XY(2, 1), XY(1, 1) >>) }

\* the mappings stored by process_dataset: all columns, or only x
MappedXY == << Mapping("x", 1, TRUE, "x"), Mapping("y", 1, TRUE, "y") >>
MappedX == << Mapping("x", 1, TRUE, "x") >>

\* the values of column c of a table, in row order
CellsOf(tbl, c) == [r \in DOMAIN tbl.rows |-> tbl.rows[r][c]]

NonNull(cells) == SelectSeq(cells, LAMBDA v : v # Null)

\* the dictionary built from pandas describe(): a numeric column is left
\* out when it has no value, a categorical column has no min and max.  The
\* mean, the deviation and the quartiles are functions of the same cells
\* and are not carried.
ColumnStatistics(tbl) ==
    LET kept == {c \in Range(tbl.columns) :
                    tbl.types[c] = "DOUBLE" => NonNull(CellsOf(tbl, c)) # <<>>}
    IN  [c \in kept |->
            LET v == NonNull(CellsOf(tbl, c))
                numeric == tbl.types[c] = "DOUBLE"
            IN  [column_type |-> IF numeric THEN "numeric" ELSE "categorical",
                 count |-> Len(v),
                 min_value |-> IF numeric THEN Min(Range(v)) ELSE Null,
                 max_value |-> IF numeric THEN Max(Range(v)) ELSE Null,
                 null_count |-> Len(tbl.rows) - Len(v),
                 unique_count |-> Cardinality(Range(v))]]

\* the datasets whose file_id is this file
DatasetsOf(recs, file) == {d \in DOMAIN recs : recs[d].file_id = file}

\* EDAManager.recalculate_file_statistics, reading the table tbl: nothing
\* is stored when the table is missing or has no row
RecalculateFileStatistics(tbl, recs, cstats, file) ==
    IF ~tbl.exists \/ tbl.rows = <<>> THEN cstats
    ELSE [d \in DOMAIN cstats |->
            IF d \in DatasetsOf(recs, file) THEN ColumnStatistics(tbl)
            ELSE cstats[d]]

\* DataManipulationManager._recalculate_statistics
RecalculateStatistics(eda, tbl, recs, cstats, file) ==
    IF eda THEN RecalculateFileStatistics(tbl, recs, cstats, file) ELSE cstats

\* the WHERE clause `"column" operation value` on one cell: true, false or
\* NULL
WhereTrue(v, operation, value) ==
    v # Null /\ (IF operation = ">" THEN v > value ELSE v = value)
WhereFalse(v, operation, value) ==
    v # Null /\ ~(IF operation = ">" THEN v > value ELSE v = value)

\* the table restricted to the rows at the positions in `keep`
KeepRows(tbl, keep) ==
    LET at == Positions(tbl.rows, keep)
    IN  [tbl EXCEPT !.rows = [j \in DOMAIN at |-> tbl.rows[at[j]]],
                    !.rowids = [j \in DOMAIN at |-> tbl.rowids[at[j]]]]

\* ALTER TABLE ADD COLUMN "c" VARCHAR followed by an UPDATE setting the
\* cell of row r to cells[r]
WithColumn(tbl, c, cells) ==
    [tbl EXCEPT !.columns = Append(tbl.columns, c),
                !.types = [k \in DOMAIN tbl.types \cup {c} |->
                              IF k = c THEN "VARCHAR" ELSE tbl.types[k]],
                !.rows = [r \in DOMAIN tbl.rows |->
                            [k \in DOMAIN tbl.rows[r] \cup {c} |->
                                IF k = c THEN cells[r] ELSE tbl.rows[r][k]]]]

\* ALTER TABLE DROP COLUMN "c"
WithoutColumn(tbl, c) ==
    [tbl EXCEPT !.columns = SelectSeq(tbl.columns, LAMBDA k : k # c),
                !.types = [k \in DOMAIN tbl.types \ {c} |-> tbl.types[k]],
                !.rows = [r \in DOMAIN tbl.rows |->
                            [k \in DOMAIN tbl.rows[r] \ {c} |->
                                tbl.rows[r][k]]]]

\* ALTER TABLE RENAME COLUMN "old" TO "new"
Renamed(tbl, old, new) ==
    LET to(k) == IF k = old THEN new ELSE k
        from(k) == IF k = new THEN old ELSE k
    IN  [tbl EXCEPT !.columns = [i \in DOMAIN tbl.columns |->
                                    to(tbl.columns[i])],
                    !.types = [k \in {to(j) : j \in DOMAIN tbl.types} |->
                                  tbl.types[from(k)]],
                    !.rows = [r \in DOMAIN tbl.rows |->
                                [k \in {to(j) : j \in DOMAIN tbl.rows[r]} |->
                                    tbl.rows[r][from(k)]]]]
\* the identifier generate_id gives to a file made by filter_file_data
NewFileIds == {"f3"}

AllFileIds == FileIds \cup NewFileIds

\* the operations that add, remove or rename columns
ColumnOps == {"rename_file_column", "add_file_columns", "add_filtered_column",
              "duplicate_file_columns", "delete_file_columns"}

\* the record of the last call: its name, file, response (success, error,
\* the columns the response lists, the fetch result), the table of the
\* file before the call, the number of calls made, the files on which
\* every call so far was a successful column operation, and the datasets
\* of the files deleted so far
NoCall ==
    [name |-> "none", file_id |-> "none", success |-> FALSE,
     error |-> "none", added |-> <<>>, before |-> NoTable,
     dataset_id |-> "none", result |-> "none", n |-> 0, clean |-> FileIds,
     deleted |-> {}]

Called(name, file, success, error, added, result) ==
    [name |-> name, file_id |-> file, success |-> success, error |-> error,
     added |-> added,
     before |-> IF file \in AllFileIds THEN tables[file] ELSE NoTable,
     dataset_id |-> "none", result |-> result, n |-> op.n + 1,
     clean |-> IF name = "fetch" \/ (name \in ColumnOps /\ success)
               THEN op.clean ELSE op.clean \ {file},
     deleted |-> IF name = "delete_file" /\ success
                 THEN op.deleted \cup DatasetsOf(records, file)
                 ELSE op.deleted]

\* a call that leaves the store as it was
Refused(name, file, error) ==
    /\ op' = Called(name, file, FALSE, error, <<>>, "none")
    /\ UNCHANGED <<files, tables, records, column_stats, eda_manager>>

\* the Dataset records with new[d] as the mapping list of every dataset d
\* of the file
WithMappings(recs, file, new) ==
    [d \in DOMAIN recs |->
        IF recs[d].file_id = file
        THEN [recs[d] EXCEPT !.column_mappings = new[d]] ELSE recs[d]]

\* the mapping appended for a new column c
Regular(c) == Mapping(c, 1, FALSE, c)

Appended(recs, file, cols) ==
    WithMappings(recs, file,
        [d \in DOMAIN recs |->
            recs[d].column_mappings \o [i \in DOMAIN cols |-> Regular(cols[i])]])

(* replace_file_data *)

\* UPDATE ... SET "col" = to WHERE "col" = from
ReplaceIn(tbl, col, from_val, to_val) ==
    [tbl EXCEPT !.rows = [r \in DOMAIN tbl.rows |->
        [tbl.rows[r] EXCEPT ![col] = IF @ = from_val THEN to_val ELSE @]]]

\* SELECT COUNT(*) ... WHERE "col" = from
MatchingCount(tbl, col, from_val) ==
    Len(SelectSeq(CellsOf(tbl, col), LAMBDA v : v = from_val))

RECURSIVE ReplaceLoop(_, _, _, _, _)
ReplaceLoop(tbl, columns, from_val, to_val, total) ==
    IF columns = <<>> THEN [table |-> tbl, total |-> total]
    ELSE ReplaceLoop(ReplaceIn(tbl, Head(columns), from_val, to_val),
                     Tail(columns), from_val, to_val,
                     total + MatchingCount(tbl, Head(columns), from_val))

ReplaceFileData(file, columns, from_val, to_val) ==
    LET tbl == tables[file] IN
    IF ~tbl.exists THEN Refused("replace_file_data", file, "missing")
    ELSE IF ~(Range(columns) \subseteq Range(tbl.columns))
    THEN Refused("replace_file_data", file, "exception")
    ELSE
        LET done == ReplaceLoop(tbl, columns, from_val, to_val, 0)
            committed == [tables EXCEPT ![file] = done.table]
        IN  /\ tables' = committed
            /\ column_stats' =
                 IF done.total > 0
                 THEN RecalculateStatistics(eda_manager, committed[file],
                                            records, column_stats, file)
                 ELSE column_stats
            /\ op' = Called("replace_file_data", file, TRUE, "none", <<>>, "none")
            /\ UNCHANGED <<files, records, eda_manager>>

(* filter_file_data *)

\* the positions of the rows where the WHERE clause is true
RowsWhere(tbl, column, operation, value) ==
    {r \in DOMAIN tbl.rows : WhereTrue(tbl.rows[r][column], operation, value)}

\* the positions of the rows where NOT (clause) is true
RowsWhereNot(tbl, column, operation, value) ==
    {r \in DOMAIN tbl.rows : WhereFalse(tbl.rows[r][column], operation, value)}

\* CREATE TABLE ... AS SELECT * ... WHERE clause: the rows get new rowids
CreatedFrom(tbl, keep) ==
    LET kept == KeepRows(tbl, keep)
    IN  [kept EXCEPT !.rowids = [r \in DOMAIN kept.rows |-> r - 1]]

FilterFileData(file, column, operation, value, create_new_file, new_file_name) ==
    LET tbl == tables[file] IN
    IF ~tbl.exists THEN Refused("filter_file_data", file, "missing")
    ELSE IF create_new_file
    THEN IF new_file_name = "" THEN Refused("filter_file_data", file, "name")
         ELSE IF file \notin files THEN Refused("filter_file_data", file, "project")
         ELSE IF column \notin Range(tbl.columns)
         THEN Refused("filter_file_data", file, "exception")
         ELSE \E new_file_id \in NewFileIds :
                /\ new_file_id \notin files /\ ~tables[new_file_id].exists
                /\ tables' = [tables EXCEPT ![new_file_id] =
                        CreatedFrom(tbl, RowsWhere(tbl, column, operation, value))]
                /\ files' = files \cup {new_file_id}
                /\ op' = Called("filter_file_data_new", file, TRUE, "none", <<>>, "none")
                /\ UNCHANGED <<records, column_stats, eda_manager>>
    ELSE IF column \notin Range(tbl.columns)
    THEN Refused("filter_file_data", file, "exception")
    ELSE
        LET gone == RowsWhereNot(tbl, column, operation, value)
            committed == [tables EXCEPT ![file] =
                             KeepRows(tbl, DOMAIN tbl.rows \ gone)]
        IN  /\ tables' = committed
            /\ column_stats' =
                 IF Cardinality(gone) > 0
                 THEN RecalculateStatistics(eda_manager, committed[file],
                                            records, column_stats, file)
                 ELSE column_stats
            /\ op' = Called("filter_file_data", file, TRUE, "none", <<>>, "none")
            /\ UNCHANGED <<files, records, eda_manager>>

(* delete_file_points *)

\* the 0-based indices of the request as positions of rows
RowNumbers(tbl, row_indices) ==
    {r \in DOMAIN tbl.rows : r - 1 \in Range(row_indices)}

\* the recalculation runs inside the transaction of the DELETE, on a
\* connection of its own: it reads the table as last committed
DeleteFilePoints(file, row_indices) ==
    LET tbl == tables[file] IN
    IF ~tbl.exists THEN Refused("delete_file_points", file, "missing")
    ELSE
        LET gone == RowNumbers(tbl, row_indices)
            visible == tables
            committed == [tables EXCEPT ![file] =
                             KeepRows(tbl, DOMAIN tbl.rows \ gone)]
        IN  /\ column_stats' =
                 IF row_indices # <<>> /\ Cardinality(gone) > 0
                 THEN RecalculateStatistics(eda_manager, visible[file],
                                            records, column_stats, file)
                 ELSE column_stats
            /\ tables' = committed
            /\ op' = Called("delete_file_points", file, TRUE, "none", <<>>, "none")
            /\ UNCHANGED <<files, records, eda_manager>>

(* add_filtered_column *)

AddFilteredColumn(file, new_column_name, source_column, operation, value) ==
    LET tbl == tables[file] IN
    IF ~tbl.exists THEN Refused("add_filtered_column", file, "missing")
    ELSE IF new_column_name \in Range(tbl.columns)
            \/ source_column \notin Range(tbl.columns)
    THEN Refused("add_filtered_column", file, "exception")
    ELSE
        LET cells == [r \in DOMAIN tbl.rows |->
                        IF WhereTrue(tbl.rows[r][source_column], operation, value)
                        THEN tbl.rows[r][source_column] ELSE Null]
            committed == [tables EXCEPT ![file] =
                             WithColumn(tbl, new_column_name, cells)]
        IN  /\ tables' = committed
            /\ column_stats' = RecalculateStatistics(eda_manager, committed[file],
                                                     records, column_stats, file)
            /\ records' = Appended(records, file, << new_column_name >>)
            /\ op' = Called("add_filtered_column", file, TRUE, "none",
                            << new_column_name >>, "none")
            /\ UNCHANGED <<files, eda_manager>>

(* add_file_columns *)

\* the UPDATE joins the values, numbered from 1, on the rowid of the rows
ValuesByRowid(tbl, values) ==
    [r \in DOMAIN tbl.rows |->
        IF tbl.rowids[r] \in DOMAIN values THEN values[tbl.rowids[r]] ELSE Null]

\* the loop over the requested columns inside the transaction: it ends by
\* the return of the failure response ("count"), by an exception, or at
\* the end of the list ("none")
RECURSIVE AddColumnsLoop(_, _, _)
AddColumnsLoop(tbl, new_columns, added) ==
    IF new_columns = <<>> THEN [table |-> tbl, added |-> added, error |-> "none"]
    ELSE LET col == Head(new_columns) IN
         IF Len(col.values) # Len(tbl.rows)
         THEN [table |-> tbl, added |-> added, error |-> "count"]
         ELSE IF col.column_name \in Range(tbl.columns) \/ col.values = <<>>
         THEN [table |-> tbl, added |-> added, error |-> "exception"]
         ELSE AddColumnsLoop(
                  WithColumn(tbl, col.column_name, ValuesByRowid(tbl, col.values)),
                  Tail(new_columns), Append(added, col.column_name))

\* leaving the transaction by `return` commits it, an exception rolls it
\* back
AddFileColumnsCommitted(tbl, done) ==
    IF done.error = "exception" THEN tbl ELSE done.table

AddFileColumns(file, new_columns) ==
    LET tbl == tables[file] IN
    IF ~tbl.exists THEN Refused("add_file_columns", file, "missing")
    ELSE
        LET done == AddColumnsLoop(tbl, new_columns, <<>>)
            committed == [tables EXCEPT ![file] =
                             AddFileColumnsCommitted(tbl, done)]
        IN  /\ tables' = committed
            /\ column_stats' =
                 IF done.error = "none" /\ Len(done.added) > 0
                 THEN RecalculateStatistics(eda_manager, committed[file],
                                            records, column_stats, file)
                 ELSE column_stats
            /\ op' = Called("add_file_columns", file, done.error = "none",
                            done.error,
                            IF done.error = "none" THEN done.added ELSE <<>>,
                            "none")
            /\ UNCHANGED <<files, records, eda_manager>>

(* duplicate_file_columns *)

\* the names `<source>_copy`, `<source>_copy1`, ... in the order tried
CopyNames ==
    [x |-> << "x_copy", "x_copy1", "x_copy2", "x_copy3" >>,
     y |-> << "y_copy", "y_copy1", "y_copy2", "y_copy3" >>]

\* the first of them that is not the name of a column
CopyName(source_col, existing_columns) ==
    LET names == CopyNames[source_col]
    IN  names[Min({k \in DOMAIN names : names[k] \notin existing_columns})]

RECURSIVE DuplicateLoop(_, _, _, _)
DuplicateLoop(tbl, columns, existing_columns, duplicated) ==
    IF columns = <<>> THEN [table |-> tbl, duplicated |-> duplicated]
    ELSE LET source_col == Head(columns).source_column
             new_col_name == IF Head(columns).new_column_name = ""
                             THEN CopyName(source_col, existing_columns)
                             ELSE Head(columns).new_column_name
         IN  IF source_col \notin existing_columns
                \/ new_col_name \in existing_columns
             THEN DuplicateLoop(tbl, Tail(columns), existing_columns, duplicated)
             ELSE DuplicateLoop(
                      WithColumn(tbl, new_col_name, CellsOf(tbl, source_col)),
                      Tail(columns), existing_columns \cup {new_col_name},
                      Append(duplicated, new_col_name))

DuplicateFileColumns(file, columns) ==
    LET tbl == tables[file] IN
    IF ~tbl.exists THEN Refused("duplicate_file_columns", file, "missing")
    ELSE
        LET done == DuplicateLoop(tbl, columns, Range(tbl.columns), <<>>)
            committed == [tables EXCEPT ![file] = done.table]
            changed == Len(done.duplicated) > 0
        IN  /\ tables' = committed
            /\ column_stats' =
                 IF changed
                 THEN RecalculateStatistics(eda_manager, committed[file],
                                            records, column_stats, file)
                 ELSE column_stats
            /\ records' = IF changed THEN Appended(records, file, done.duplicated)
                          ELSE records
            /\ op' = Called("duplicate_file_columns", file, TRUE, "none",
                            done.duplicated, "none")
            /\ UNCHANGED <<files, eda_manager>>

(* delete_file_columns *)

\* existing_columns is read once: a name asked twice is dropped twice, and
\* the second DROP raises, as does the DROP of the only column left
RECURSIVE DropLoop(_, _, _, _)
DropLoop(tbl, column_names, existing_columns, deleted) ==
    IF column_names = <<>>
    THEN [table |-> tbl, deleted |-> deleted, error |-> "none"]
    ELSE LET col_name == Head(column_names) IN
         IF col_name \notin existing_columns
         THEN DropLoop(tbl, Tail(column_names), existing_columns, deleted)
         ELSE IF col_name \notin Range(tbl.columns) \/ Len(tbl.columns) = 1
         THEN [table |-> tbl, deleted |-> deleted, error |-> "exception"]
         ELSE DropLoop(WithoutColumn(tbl, col_name), Tail(column_names),
                       existing_columns, Append(deleted, col_name))

DeleteFileColumns(file, column_names) ==
    LET tbl == tables[file] IN
    IF ~tbl.exists THEN Refused("delete_file_columns", file, "missing")
    ELSE
        LET done == DropLoop(tbl, column_names, Range(tbl.columns), <<>>) IN
        IF done.error # "none" THEN Refused("delete_file_columns", file, "exception")
        ELSE
            LET committed == [tables EXCEPT ![file] = done.table]
                changed == Len(done.deleted) > 0
            IN  /\ tables' = committed
                /\ column_stats' =
                     IF changed
                     THEN RecalculateStatistics(eda_manager, committed[file],
                                                records, column_stats, file)
                     ELSE column_stats
                /\ records' =
                     IF changed
                     THEN WithMappings(records, file,
                            [d \in DOMAIN records |->
                                SelectSeq(records[d].column_mappings,
                                    LAMBDA m : m.column_name \notin Range(done.deleted))])
                     ELSE records
                /\ op' = Called("delete_file_columns", file, TRUE, "none",
                                <<>>, "none")
                /\ UNCHANGED <<files, eda_manager>>

(* rename_file_column *)

\* column_renames is a dict, given here as its items in iteration order
RenameKeys(column_renames) ==
    {column_renames[i].old : i \in DOMAIN column_renames}

RenameOf(column_renames, old) ==
    column_renames[CHOOSE i \in DOMAIN column_renames :
                      column_renames[i].old = old].new

\* existing_columns is read once, before the first rename
RECURSIVE RenameLoop(_, _, _)
RenameLoop(tbl, column_renames, existing_columns) ==
    IF column_renames = <<>> THEN [table |-> tbl, error |-> "none"]
    ELSE LET old_name == Head(column_renames).old
             new_name == Head(column_renames).new
         IN  IF old_name \notin existing_columns
             THEN RenameLoop(tbl, Tail(column_renames), existing_columns)
             ELSE IF old_name \notin Range(tbl.columns)
                     \/ new_name \in Range(tbl.columns)
             THEN [table |-> tbl, error |-> "exception"]
             ELSE RenameLoop(Renamed(tbl, old_name, new_name),
                             Tail(column_renames), existing_columns)

RenamedMappings(column_mappings, column_renames) ==
    [i \in DOMAIN column_mappings |->
        IF column_mappings[i].column_name \in RenameKeys(column_renames)
        THEN [column_mappings[i] EXCEPT !.column_name =
                 RenameOf(column_renames, column_mappings[i].column_name)]
        ELSE column_mappings[i]]

RenameFileColumn(file, column_renames) ==
    LET tbl == tables[file] IN
    IF ~tbl.exists THEN Refused("rename_file_column", file, "missing")
    ELSE
        LET done == RenameLoop(tbl, column_renames, Range(tbl.columns)) IN
        IF done.error # "none" THEN Refused("rename_file_column", file, "exception")
        ELSE
            LET committed == [tables EXCEPT ![file] = done.table]
            IN  /\ tables' = committed
                /\ records' = WithMappings(records, file,
                      [d \in DOMAIN records |->
                          RenamedMappings(records[d].column_mappings,
                                          column_renames)])
                /\ column_stats' = RecalculateStatistics(eda_manager,
                      committed[file], records, column_stats, file)
                /\ op' = Called("rename_file_column", file, TRUE, "none",
                                <<>>, "none")
                /\ UNCHANGED <<files, eda_manager>>

(* delete_file *)

\* variant: the Dataset records of the file are left in place
DeleteFileKeepsDatasets(file, dropped) ==
    IF file \notin files THEN Refused("delete_file", file, "not_found")
    ELSE
        /\ column_stats' = [d \in DOMAIN column_stats |->
                              IF d \in DatasetsOf(records, file) THEN <<>>
                              ELSE column_stats[d]]
        /\ tables' = IF dropped THEN [tables EXCEPT ![file] = NoTable]
                     ELSE tables
        /\ files' = files \ {file}
        /\ op' = Called("delete_file", file, TRUE, "none", <<>>, "none")
        /\ UNCHANGED <<records, eda_manager>>

\* the DROP TABLE runs on a connection that is closed without a commit:
\* whether the table is gone afterwards depends on the connection's
\* autocommit behaviour
DeleteFile(file, dropped) ==
    IF file \notin files THEN Refused("delete_file", file, "not_found")
    ELSE
        /\ column_stats' = [d \in DOMAIN column_stats |->
                              IF d \in DatasetsOf(records, file) THEN <<>>
                              ELSE column_stats[d]]
        /\ records' = [d \in DOMAIN records \ DatasetsOf(records, file) |->
                          records[d]]
        /\ tables' = IF dropped THEN [tables EXCEPT ![file] = NoTable]
                     ELSE tables
        /\ files' = files \ {file}
        /\ op' = Called("delete_file", file, TRUE, "none", <<>>, "none")
        /\ UNCHANGED eda_manager

(* a fetch against the store *)

\* the rows as the SELECT returns them to pandas: NULL becomes NaN
SelectRows(tbl, columns) ==
    [r \in DOMAIN tbl.rows |->
        [c \in Range(columns) |->
            IF tbl.rows[r][c] = Null THEN NaN ELSE tbl.rows[r][c]]]

\* the SELECT raises: the table or a column is missing, or no column is
\* asked
QueryRaises(tbl, columns) ==
    ~tbl.exists \/ columns = <<>>
        \/ ~(Range(columns) \subseteq Range(tbl.columns))

\* the fetch from the SELECT on: the SELECT raises, or the rows of the
\* table are processed
QueryResult(tbl, columns, bbox, fcols) ==
    IF QueryRaises(tbl, columns) THEN ExceptReturn
    ELSE EdaFetch(TRUE, TRUE, SelectRows(tbl, columns), columns, bbox, fcols)

\* get_dataset_data_and_stats_combined against the Dataset records recs and
\* the tables tbls
StoreFetch(recs, tbls, dataset_id, columns, bbox, fcols) ==
    IF dataset_id \notin DOMAIN recs THEN NotFoundReturn
    ELSE QueryResult(tbls[recs[dataset_id].file_id], columns, bbox, fcols)

FetchStored(dataset_id, columns) ==
    /\ op' = [Called("fetch", "none", TRUE, "none", <<>>,
                     StoreFetch(records, tables, dataset_id, columns,
                                <<>>, <<>>))
                EXCEPT !.dataset_id = dataset_id]
    /\ UNCHANGED <<files, tables, records, column_stats, eda_manager>>

(* the requests *)

ReplaceRequests ==
    { [columns |-> c, from_value |-> 1, to_value |-> t] :
        c \in { <<"x">>, <<"y", "x">>, <<"q">> }, t \in {2, Null} }

FilterRequests ==
    { [column |-> "x", operation |-> ">", value |-> v,
       create_new_file |-> FALSE, new_file_name |-> ""] : v \in {1, 2} }
    \cup { [column |-> "x", operation |-> ">", value |-> 1,
            create_new_file |-> TRUE, new_file_name |-> n] :
              n \in {"", "filtered"} }

PointRequestsOf == { <<>>, <<0>>, <<1, 0>>, <<5>> }

FilteredColumnRequests ==
    { [new_column_name |-> "w", source_column |-> s, operation |-> ">",
       value |-> 1] : s \in {"x", "q"} }

NewColumn(name, values) == [column_name |-> name, values |-> values]

AddColumnsRequests ==
    { <<>>,
      << NewColumn("w", <<5, 6>>) >>,
      << NewColumn("w", <<5, 6>>), NewColumn("v", <<5>>) >>,
      << NewColumn("v", <<5>>), NewColumn("w", <<5, 6>>) >> }

Duplicate(source, name) == [source_column |-> source, new_column_name |-> name]

DuplicateRequests ==
    { << Duplicate("x", "") >>, << Duplicate("x", "w"), Duplicate("q", "") >> }

DeleteColumnsRequests == { <<"y">>, <<"x", "y">>, <<"w", "w">> }

Rename(old, new) == [old |-> old, new |-> new]

RenameRequests ==
    { << Rename("x", "w") >>, << Rename("x", "y") >>,
      << Rename("x", "w"), Rename("w", "v") >>,
      << Rename("w", "v"), Rename("x", "w") >> }

(* the state machine of the store *)

\* no request of the pipeline and no streaming call has been made
NothingAsked ==
    /\ datasets = {"d1"}
    /\ table = <<>>
    /\ stats = DescribeStats(table)
    /\ req = NoReq
    /\ ret = NoRet
    /\ sdata = <<>>
    /\ hdata = NoHeatData
    /\ sreq = [op |-> "none", num_bins |-> 0]
    /\ sres = NoStat
    /\ mappings = StandardMappings
    /\ greq = NoGreq
    /\ response = EmptyResponse("idle")
    /\ stream = [status |-> "idle"]
    /\ chunks = <<>>

\* two datasets mapped on one file, or one dataset on each of two files;
\* the statistics are those stored when the datasets were created
InitStore ==
    /\ eda_manager \in BOOLEAN
    /\ \E shared \in BOOLEAN, t \in FileTables :
          /\ files = IF shared THEN {"f1"} ELSE FileIds
          /\ tables = [f \in AllFileIds |-> IF f \in files THEN t ELSE NoTable]
          /\ records =
               [d \in DatasetIds |->
                  IF d = "d1"
                  THEN [file_id |-> "f1", column_mappings |-> MappedXY]
                  ELSE [file_id |-> IF shared THEN "f1" ELSE "f2",
                        column_mappings |-> MappedX]]
          /\ column_stats =
               [d \in DatasetIds |->
                  IF eda_manager THEN ColumnStatistics(t) ELSE <<>>]
    /\ op = NoCall

InitOps ==
    /\ NothingAsked
    /\ InitStore
    /\ procs = <<>>
    /\ deleting = [file_id |-> "none", datasets |-> {}, all |-> {}]

NextOps ==
    /\ op.n < MaxOps
    /\ UNCHANGED <<pipeline, streaming, calls>>
    /\ \E file \in FileIds :
          \/ \E r \in ReplaceRequests :
                ReplaceFileData(file, r.columns, r.from_value, r.to_value)
          \/ \E r \in FilterRequests :
                FilterFileData(file, r.column, r.operation, r.value,
                               r.create_new_file, r.new_file_name)
          \/ \E row_indices \in PointRequestsOf :
                DeleteFilePoints(file, row_indices)
          \/ \E r \in FilteredColumnRequests :
                AddFilteredColumn(file, r.new_column_name, r.source_column,
                                  r.operation, r.value)
          \/ \E new_columns \in AddColumnsRequests :
                AddFileColumns(file, new_columns)
          \/ \E columns \in DuplicateRequests :
                DuplicateFileColumns(file, columns)
          \/ \E column_names \in DeleteColumnsRequests :
                DeleteFileColumns(file, column_names)
          \/ \E column_renames \in RenameRequests :
                RenameFileColumn(file, column_renames)
          \/ \E dropped \in BOOLEAN : DeleteFile(file, dropped)
          \/ \E dataset_id \in DatasetIds :
                FetchStored(dataset_id, <<"x", "y">>)

SpecOps == InitOps /\ [][NextOps]_vars

(***************************************************************************)
(* Concurrent calls.  get_dataset_data runs on the worker threads of the   *)
(* server; every read of the store is a `with` block of its own and one    *)
(* step of the thread, while delete_file_points, the in-place filter and   *)
(* delete_file commit their changes in between.                            *)
(***************************************************************************)
\* the operations that change the store while the calls run
MaxWrites == 1

\* two of the worker threads
Procs == {"p1", "p2"}

\* the file of the datasets the calls ask for
ConcFiles == {"f1"}

\* no box, and a box that holds no row
ConcBoxes == { <<>>, <<5, 6, 5, 6>> }

\* the columns of the request
ConcColumns == <<"x", "y">>

\* a thread that serves no call: where it is in get_dataset_data, which
\* fetch it is in (0 before the first), the request, the sessions and
\* connections it holds, the mappings and the table name it has read, the
\* results of its fetches, and the table each fetch has read
IdleProc ==
    [at |-> "idle", fetch |-> 0, dataset_id |-> "none", bounding_box |-> <<>>,
     handles |-> {}, maps |-> <<>>, table_name |-> "none", results |-> <<>>,
     seen |-> <<>>, reply |-> EmptyResponse("idle")]

\* variant: an exception in the block leaves the handle open
AfterWithLeaks(open, handle, raised) ==
    IF raised THEN open ELSE open \ {handle}

\* leaving a `with` block closes its session or connection, whether the
\* block ends normally, by `return` or by an exception
AfterWith(open, handle, raised) == open \ {handle}

\* the columns and the filter columns of fetch k of get_dataset_data
FetchColumns(proc, k) ==
    IF k = 1 THEN VizColumns(ConcColumns) ELSE NumericColumns(proc.maps)

FetchFilterColumns(proc, k) ==
    IF k = 1 THEN <<>>
    ELSE FilterColumnsForBbox(proc.maps, VizColumns(ConcColumns))

\* the end of a fetch: its result is kept and the call goes on
Fetched(proc, result, tbl) ==
    [proc EXCEPT !.results = Append(@, result),
                 !.seen = Append(@, tbl),
                 !.at = IF proc.fetch = 1 THEN "lookup" ELSE "reply",
                 !.fetch = IF proc.fetch = 1 THEN 2 ELSE proc.fetch]

\* entering a `with` block opens its session or connection
Entered(open, handle) == open \cup {handle}

\* the call arrives: get_dataset_data reads the Dataset record in the
\* Session of get_dataset_by_id and takes the mappings from it
Call(p, dataset_id, bounding_box) ==
    LET proc == procs[p]
        found == dataset_id \in DOMAIN records
        asked == [proc EXCEPT
                    !.dataset_id = dataset_id, !.bounding_box = bounding_box,
                    !.handles = AfterWith(Entered(@, "session"), "session",
                                          FALSE)]
    IN  /\ proc.at = "idle"
        /\ procs' = [procs EXCEPT ![p] =
              IF found
              THEN [asked EXCEPT !.maps = records[dataset_id].column_mappings,
                                 !.at = "lookup", !.fetch = 1]
              ELSE [asked EXCEPT !.reply = EmptyResponse("not_found"),
                                 !.at = "done"]]
        /\ UNCHANGED <<pipeline, streaming, store, deleting>>

\* a fetch begins: get_dataset_by_id reads the Dataset record in a Session
Lookup(p) ==
    LET proc == procs[p]
        found == proc.dataset_id \in DOMAIN records
        closed == [proc EXCEPT
                     !.handles = AfterWith(Entered(@, "session"), "session",
                                           FALSE)]
    IN  /\ proc.at = "lookup"
        /\ procs' = [procs EXCEPT ![p] =
              IF found
              THEN [closed EXCEPT
                      !.table_name = records[proc.dataset_id].file_id,
                      !.at = "query"]
              ELSE Fetched(closed, NotFoundReturn, NoTable)]
        /\ UNCHANGED <<pipeline, streaming, store, deleting>>

\* `with self.engine.connect() as conn`: the SELECT on the table as
\* committed now, the end of the block, and the processing of the rows up
\* to the return of the fetch
Query(p) ==
    LET proc == procs[p]
        tbl == tables[proc.table_name]
        columns == FetchColumns(proc, proc.fetch)
        closed == [proc EXCEPT
                     !.handles = AfterWith(Entered(@, "connection"),
                                    "connection", QueryRaises(tbl, columns))]
    IN  /\ proc.at = "query"
        /\ procs' = [procs EXCEPT ![p] =
              Fetched(closed,
                      QueryResult(tbl, columns, proc.bounding_box,
                                  FetchFilterColumns(proc, proc.fetch)),
                      tbl)]
        /\ UNCHANGED <<pipeline, streaming, store, deleting>>

\* the response is built from the results of the two fetches; with two
\* visualization columns there is no heatmap, so nothing is cast
Reply(p) ==
    LET proc == procs[p] IN
    /\ proc.at = "reply"
    /\ procs' = [procs EXCEPT ![p] =
          [proc EXCEPT !.at = "done",
                       !.reply = DatasetDataReply(proc.results[1],
                           proc.results[2], VizColumns(ConcColumns),
                           NumericColumns(proc.maps), "zero")]]
    /\ UNCHANGED <<pipeline, streaming, store, deleting>>

\* delete_file_points or the in-place filter_file_data, each committing its
\* change of the table in one transaction
ChangeData ==
    /\ op.n < MaxWrites
    /\ \E file \in ConcFiles :
          \/ DeleteFilePoints(file, <<0>>)
          \/ FilterFileData(file, "x", ">", 2, FALSE, "")
    /\ UNCHANGED <<pipeline, streaming, calls>>

NotDeleting == [file_id |-> "none", datasets |-> {}, all |-> {}]

\* delete_file finds the File record and reads the datasets of the file
DeleteFileStart(file) ==
    /\ op.n < MaxWrites
    /\ deleting.file_id = "none"
    /\ IF file \notin files
       THEN Refused("delete_file", file, "not_found") /\ UNCHANGED deleting
       ELSE /\ deleting' = [file_id |-> file,
                            datasets |-> DatasetsOf(records, file),
                            all |-> DatasetsOf(records, file)]
            /\ UNCHANGED store
    /\ UNCHANGED <<pipeline, streaming, procs>>

\* the statistics and then the record of one dataset are deleted and the
\* deletion is committed
DeleteFileDataset ==
    /\ deleting.file_id # "none"
    /\ \E d \in deleting.datasets :
          /\ column_stats' = [column_stats EXCEPT ![d] = <<>>]
          /\ records' = [k \in DOMAIN records \ {d} |-> records[k]]
          /\ deleting' = [deleting EXCEPT !.datasets = @ \ {d}]
    /\ UNCHANGED <<files, tables, eda_manager, op>>
    /\ UNCHANGED <<pipeline, streaming, procs>>

\* the table is dropped, or not, and the File record is deleted
DeleteFileEnd(dropped) ==
    /\ deleting.file_id # "none"
    /\ deleting.datasets = {}
    /\ tables' = IF dropped THEN [tables EXCEPT ![deleting.file_id] = NoTable]
                 ELSE tables
    /\ files' = files \ {deleting.file_id}
    /\ op' = [Called("delete_file", deleting.file_id, TRUE, "none", <<>>, "none")
                EXCEPT !.deleted = op.deleted \cup deleting.all]
    /\ deleting' = NotDeleting
    /\ UNCHANGED <<records, column_stats, eda_manager>>
    /\ UNCHANGED <<pipeline, streaming, procs>>

\* the two datasets are mapped on the same file
InitConc ==
    /\ NothingAsked
    /\ InitStore
    /\ files = ConcFiles
    /\ tables["f1"] = Imported(<< XY(1, 1), XY(2, 2) >>)
    /\ eda_manager
    /\ procs = [p \in Procs |-> IdleProc]
    /\ deleting = NotDeleting

NextConc ==
    \/ \E p \in Procs :
          \/ \E dataset_id \in DatasetIds, bounding_box \in ConcBoxes :
                Call(p, dataset_id, bounding_box)
          \/ Lookup(p)
          \/ Query(p)
          \/ Reply(p)
    \/ ChangeData
    \/ \E file \in ConcFiles : DeleteFileStart(file)
    \/ DeleteFileDataset
    \/ \E dropped \in BOOLEAN : DeleteFileEnd(dropped)

SpecConc == InitConc /\ [][NextConc]_vars

(***************************************************************************)
(* Properties of the fetch.  The expected rows and values are written      *)
(* here from the statement of each property, row by row, and compared      *)
(* with what the fetch returned.                                           *)
(***************************************************************************)
IsFetch == req.impl # "none"
IsEda == req.impl = "eda"
Found == req.dataset_id \in datasets
Boxed == Len(req.bounding_box) \in {4, 6}
Completed == ret.path \in {"ok", "no_rows", "filtered_out"}
Returned == [buffer |-> ret.buffer, boundaries |-> ret.boundaries]

Within(v, lo, hi) == v # NaN /\ lo <= v /\ v <= hi

\* the filter columns the fetch settled on, as a list [x, y] or [x, y, z]
ChosenFilter ==
    LET fc == FilterColumnsOf(req.columns, req.filter_columns)
    IN  IF fc.z = None THEN <<fc.x, fc.y>> ELSE <<fc.x, fc.y, fc.z>>

RowInBox(row, f) ==
    /\ Within(row[f[1]], req.bounding_box[1], req.bounding_box[2])
    /\ Within(row[f[2]], req.bounding_box[3], req.bounding_box[4])
    /\ (Len(req.bounding_box) = 6 /\ Len(f) >= 3) =>
          Within(row[f[3]], req.bounding_box[5], req.bounding_box[6])

RECURSIVE RowsInBox(_, _)
RowsInBox(rows, f) ==
    IF rows = <<>> THEN <<>>
    ELSE (IF RowInBox(Head(rows), f) THEN <<Head(rows)>> ELSE <<>>)
         \o RowsInBox(Tail(rows), f)

ExpectedRows == IF Boxed THEN RowsInBox(table, ChosenFilter) ELSE table

RECURSIVE RowMajor(_, _)
\* the rows one after the other, each as its columns in request order, as
\* 32-bit floats
RowMajor(rows, columns) ==
    IF rows = <<>> THEN <<>>
    ELSE [i \in 1..Len(columns) |-> ToFloat32(Head(rows)[columns[i]])]
         \o RowMajor(Tail(rows), columns)

\* C1 (as stated): position r*K+i of the buffer holds the value of column i
\* at retained row r, and buffer[i::K] recovers column i exactly.
C1_ExactValues ==
    (IsEda /\ Completed /\ \A c \in Range(req.columns) : Dtype(c) # "object") =>
        LET K == Len(req.columns)
            rows == ExpectedRows
        IN  /\ Len(ret.buffer) = Len(rows) * K
            /\ \A r \in 1..Len(rows), i \in 1..K :
                  ret.buffer[(r - 1) * K + i] = rows[r][req.columns[i]]
            /\ \A i \in 1..K :
                  Slice(ret.buffer, i, K) = Column(rows, req.columns[i])

\* C1 (amended): a fetch that does not fail returns exactly N*K values;
\* position r*K+i holds the value of column i at retained row r converted to
\* a 32-bit float (a non-numeric entry becoming NaN), and buffer[i::K] is
\* that converted column in row order.  Scenario 1 of the specification is
\* the concrete instance.
C1_InterleavedFloat32 ==
    /\ (IsEda /\ Completed) =>
        LET K == Len(req.columns)
            rows == ExpectedRows
        IN  /\ Len(ret.buffer) = Len(rows) * K
            /\ \A r \in 1..Len(rows), i \in 1..K :
                  ret.buffer[(r - 1) * K + i] = ToFloat32(rows[r][req.columns[i]])
            /\ \A i \in 1..K :
                  Slice(ret.buffer, i, K)
                    = [r \in 1..Len(rows) |-> ToFloat32(rows[r][req.columns[i]])]
    /\ (IsEda /\ req.store_up /\ Found /\ table = Scenario1Table
           /\ req.columns = <<"x", "y", "z">> /\ ~Boxed) =>
          ret.buffer = <<0, 0, 10, 1, 1, 20, 2, 2, 30, 3, 3, 40>>

\* a fetch of three columns, one of them out of float32 precision, that
\* retained two rows
C1_Witness ==
    /\ IsEda /\ ret.path = "ok"
    /\ Len(req.columns) = 3 /\ Len(ret.buffer) = 6
    /\ \E p \in DOMAIN ret.buffer : ret.buffer[p] = TwoPow24

\* C2: with a 4- or 6-element box the fetch retains exactly the rows inside
\* the box on x and y (and on z for a 6-element box with a z filter column),
\* and every requested column is cut by the same selection: the buffer is
\* the retained rows, whole and in order.
C2_BoxKeepsExactlyRowsInside ==
    (IsEda /\ Boxed /\ Completed) =>
        /\ ret.buffer = RowMajor(ExpectedRows, req.columns)
        /\ \A i \in 1..Len(req.columns) :
              Len(Slice(ret.buffer, i, Len(req.columns))) = Len(ExpectedRows)

\* a box that kept some rows of the table and dropped others
C2_Witness ==
    /\ IsEda /\ Boxed /\ ret.path = "ok"
    /\ Len(req.columns) >= 2
    /\ Len(ret.buffer) < Len(table) * Len(req.columns)

\* C3: the box is evaluated on the explicit filter columns when they are
\* given, otherwise on the first two (for z, the third) requested columns.
C3_FilterColumnChoice ==
    (IsEda /\ Boxed /\ Completed) =>
        /\ Len(req.filter_columns) >= 2 =>
              ret.buffer = RowMajor(RowsInBox(table, req.filter_columns),
                                    req.columns)
        /\ Len(req.filter_columns) < 2 =>
              ret.buffer = RowMajor(RowsInBox(table, req.columns), req.columns)

\* explicit filter columns that differ from the leading requested columns
\* and select other rows than those would
C3_Witness ==
    /\ IsEda /\ Boxed /\ ret.path = "ok"
    /\ Len(req.filter_columns) >= 2 /\ Len(req.columns) >= 2
    /\ SubSeq(req.columns, 1, 2) # SubSeq(req.filter_columns, 1, 2)
    /\ \A c \in Range(SubSeq(req.columns, 1, 2)) : Dtype(c) # "object"
    /\ RowsInBox(table, req.columns) # RowsInBox(table, req.filter_columns)

EmptyPair == [buffer |-> <<>>, boundaries |-> <<>>]

\* the boundaries the statement asks for: for each numeric requested column
\* with a non-NaN value among the rows, the least, the greatest and the
\* number of its non-NaN values
ExpectedBoundaries(rows, columns) ==
    LET valid(c) == {r \in DOMAIN rows : rows[r][c] # NaN}
        num == {c \in Range(columns) : Dtype(c) # "object" /\ valid(c) # {}}
    IN  [c \in num |->
            [min_value |-> CHOOSE m \in {rows[r][c] : r \in valid(c)} :
                              \A r \in valid(c) : m <= rows[r][c],
             max_value |-> CHOOSE m \in {rows[r][c] : r \in valid(c)} :
                              \A r \in valid(c) : m >= rows[r][c],
             valid_count |-> Cardinality(valid(c))]]

\* C4: for every fetch, with or without a box, the boundaries give for each
\* numeric requested column the min, the max and the count of the non-NaN
\* values of the rows the fetch retained.
C4_BoundariesFromRetainedRows ==
    (IsFetch /\ ret.path = "ok") =>
        ret.boundaries = ExpectedBoundaries(ExpectedRows, req.columns)

Selected ==
    IF req.impl = "db" /\ Len(req.columns) > 3
    THEN SubSeq(req.columns, 1, 3) ELSE req.columns

\* a failure inside the fetch: the store unreachable, a selected column the
\* table does not have, an empty column list, a filter column that cannot
\* be evaluated
FetchFailed ==
    /\ IsFetch
    /\ \/ ~req.store_up
       \/ Found /\ \E c \in Range(Selected) : c \notin TableCols
       \/ ret.path = "exception"

C7_EmptyIsNormalReturn ==
    (/\ IsFetch /\ req.store_up /\ Found /\ ret.path # "exception"
     /\ \/ table = <<>>
        \/ Boxed /\ RowsInBox(table, ChosenFilter) = <<>>) =>
        /\ Returned = EmptyPair /\ ~ret.raised /\ ret.error = "none"
        /\ ret.path \in {"no_rows", "filtered_out"}

\* a table with rows, all of them outside the box on one axis only
C7_Witness ==
    /\ IsEda /\ Found /\ ret.path = "filtered_out" /\ Len(table) = 2
    /\ req.bounding_box = <<0, 1, 1, 2, 0, 40>>

(***************************************************************************)
(* Properties of the statistics.  The non-NaN values are taken from the    *)
(* input by position; ranks are defined by counting.                       *)
(***************************************************************************)
ValidAt == {k \in DOMAIN sdata : sdata[k] # NaN}
ValidN == Cardinality(ValidAt)
ValidValues == {sdata[k] : k \in ValidAt}
DataMin == CHOOSE m \in ValidValues : \A v \in ValidValues : m <= v
DataMax == CHOOSE m \in ValidValues : \A v \in ValidValues : m >= v
Occurrences(v) == Cardinality({k \in ValidAt : sdata[k] = v})
CountIn(s, v) == Cardinality({k \in DOMAIN s : s[k] = v})

HistAsked == sreq.op = "histogram" /\ ValidN >= 1 /\ sreq.num_bins >= 1

HistShape ==
    /\ ~sres.empty
    /\ Len(sres.bin_counts) = sreq.num_bins
    /\ Len(sres.bin_edges) = sreq.num_bins + 1
    /\ SumSeq(sres.bin_counts) = ValidN

\* C8 (as stated): for N >= 1 non-NaN values and numBins >= 1 the counts sum
\* to N, the minimum is counted in bin 0 and the maximum in the last bin.
C8_MinInFirstMaxInLast ==
    HistAsked =>
        /\ HistShape
        /\ sres.bin_counts[1] >= Occurrences(DataMin)
        /\ sres.bin_counts[sreq.num_bins] >= Occurrences(DataMax)

\* C8 (amended): for N >= 1 finite non-NaN values and numBins >= 1 there are
\* numBins counts and numBins+1 edges and the counts sum to N; when
\* min < max the minimum is counted in bin 0 and the maximum in the last
\* bin; when all values are equal they are all counted in bin
\* floor(numBins / 2).
C8_HistogramCoverage ==
    HistAsked =>
        /\ HistShape
        /\ DataMin < DataMax =>
              /\ sres.bin_counts[1] >= Occurrences(DataMin)
              /\ sres.bin_counts[sreq.num_bins] >= Occurrences(DataMax)
        /\ DataMin = DataMax =>
              sres.bin_counts[(sreq.num_bins \div 2) + 1] = ValidN

\* a histogram of several bins over values that are not all equal, with a
\* NaN dropped
C8_Witness ==
    /\ HistAsked /\ ~sres.empty
    /\ sreq.num_bins = 3 /\ DataMin < DataMax
    /\ ValidN = 3 /\ Len(sdata) = 4

EqualWidth ==
    \A i \in 1..sreq.num_bins :
        sres.bin_edges[i + 1] - sres.bin_edges[i]
          = sres.bin_edges[2] - sres.bin_edges[1]

\* C9 (as stated): for every non-empty non-NaN input, values all equal
\* included, the bins are equal-width and the first edge is the minimum of
\* the data and the last edge its maximum.
C9_EdgesSpanMinMax ==
    HistAsked =>
        /\ EqualWidth
        /\ sres.bin_edges[1] = sres.edge_unit * DataMin
        /\ sres.bin_edges[sreq.num_bins + 1] = sres.edge_unit * DataMax

\* C9 (amended): the bins are equal-width; when min < max they span exactly
\* [min, max]; when all values are equal they span [min - 0.5, max + 0.5].
\* Scenario 3 of the specification is the concrete instance.
C9_EdgesSpanRange ==
    /\ HistAsked =>
        /\ EqualWidth
        /\ sres.edge_unit = 2 * sreq.num_bins
        /\ DataMin < DataMax =>
              /\ sres.bin_edges[1] = sres.edge_unit * DataMin
              /\ sres.bin_edges[sreq.num_bins + 1] = sres.edge_unit * DataMax
        /\ DataMin = DataMax =>
              /\ 2 * sres.bin_edges[1] = sres.edge_unit * (2 * DataMin - 1)
              /\ 2 * sres.bin_edges[sreq.num_bins + 1]
                    = sres.edge_unit * (2 * DataMax + 1)
    /\ (sreq.op = "histogram" /\ sdata = Scenario3Data /\ sreq.num_bins = 5) =>
        /\ sres.bin_edges = <<10, 28, 46, 64, 82, 100>>
        /\ SumSeq(sres.bin_counts) = 10

\* a histogram of several bins over values that are all equal
C9_Witness ==
    /\ HistAsked /\ ~sres.empty
    /\ sreq.num_bins = 4 /\ DataMin = DataMax /\ ValidN = 2

\* the k-th smallest non-NaN value
KthSmallest(k) ==
    CHOOSE v \in ValidValues :
        /\ Cardinality({i \in ValidAt : sdata[i] < v}) < k
        /\ Cardinality({i \in ValidAt : sdata[i] <= v}) >= k

\* the percentile at 25*q by linear interpolation between closest ranks, in
\* eighths: rank (N-1)*q/4 counted from 0
Interpolated8(q) ==
    LET h == (ValidN - 1) * q
        a == KthSmallest((h \div 4) + 1)
        b == IF h % 4 = 0 THEN a ELSE KthSmallest((h \div 4) + 2)
    IN  8 * a + 2 * (h % 4) * (b - a)

IsOutlier(v) == 8 * v < sres.lower_fence \/ 8 * v > sres.upper_fence

\* C10: Q1, median and Q3 are the linear-interpolation percentiles at
\* 25/50/75, IQR = Q3 - Q1, the fences are Q1 - 1.5 IQR and Q3 + 1.5 IQR,
\* the outliers are exactly the values strictly outside the fences, and the
\* mean is over all non-NaN values.  Scenario 4 of the specification is the
\* concrete instance.
C10_BoxplotQuartilesFences ==
    /\ (sreq.op = "boxplot" /\ ValidN >= 1) =>
        /\ ~sres.empty
        /\ sres.q1 = Interpolated8(1)
        /\ sres.median = Interpolated8(2)
        /\ sres.q3 = Interpolated8(3)
        /\ sres.iqr = sres.q3 - sres.q1
        /\ 2 * sres.lower_fence = 2 * sres.q1 - 3 * sres.iqr
        /\ 2 * sres.upper_fence = 2 * sres.q3 + 3 * sres.iqr
        /\ \A v \in ValidValues :
              CountIn(sres.outliers, v)
                = (IF IsOutlier(v) THEN Occurrences(v) ELSE 0)
        /\ Range(sres.outliers) \subseteq ValidValues
        /\ sres.mean = Float32Div(Float32Sum(ValidOf(sdata), 0), ValidN)
    /\ (sreq.op = "boxplot" /\ sdata = Scenario4Data) =>
        /\ sres.q1 = 18 /\ sres.median = 28 /\ sres.q3 = 38
        /\ sres.iqr = 20 /\ sres.upper_fence = 68
        /\ sres.outliers = <<100>> /\ sres.max = 40

\* a box plot over values with an outlier and a quartile between two ranks
C10_Witness ==
    /\ sreq.op = "boxplot" /\ ~sres.empty
    /\ ValidN = 4 /\ sres.outliers = <<100>>
    /\ sres.q1 % 8 # 0

BoxAsked == sreq.op = "boxplot" /\ ValidN >= 1

\* the non-NaN values lying within [lower_fence, upper_fence]
WithinFences == {v \in ValidValues : ~IsOutlier(v)}

C12_ConstantAllEqual ==
    (BoxAsked /\ DataMin = DataMax) =>
        /\ ~sres.empty
        /\ sres.min = 8 * DataMin
        /\ sres.q1 = sres.min
        /\ sres.median = sres.min
        /\ sres.q3 = sres.min
        /\ sres.max = sres.min
        /\ sres.mean = [num |-> DataMin, shift |-> 0]
        /\ sres.outliers = <<>>

(***************************************************************************)
(* Properties of the heatmap.  The expected bin of a point is computed     *)
(* here from the retained coordinates, by the formula of the statement.    *)
(***************************************************************************)
HX == hdata.x_data
HY == hdata.y_data
HV == hdata.value_data

HeatAsked == sreq.op = "heatmap"
SameLengths == Len(HX) = Len(HY) /\ Len(HY) = Len(HV)

\* the rows that have no NaN in x, y or value
Retained ==
    {i \in 1..Len(HX) : HX[i] # NaN /\ HY[i] # NaN /\ HV[i] # NaN}

\* a heatmap asked over rows of which some are retained, on a proper grid
HeatOver == HeatAsked /\ SameLengths /\ Retained # {} /\ sreq.grid_size >= 1

AxisLo(d) == CHOOSE m \in {d[i] : i \in Retained} : \A i \in Retained : m <= d[i]
AxisHi(d) == CHOOSE m \in {d[i] : i \in Retained} : \A i \in Retained : m >= d[i]
ZeroRange(d) == AxisLo(d) = AxisHi(d)

Clamped(k) ==
    IF k < 0 THEN 0
    ELSE IF k > sreq.grid_size - 1 THEN sreq.grid_size - 1 ELSE k

\* floor((coord - min) / binSize) clamped, binSize = (max - min) / gridSize,
\* on an axis of non-zero range
ClampedFloor(d, i) ==
    Clamped(((d[i] - AxisLo(d)) * sreq.grid_size) \div (AxisHi(d) - AxisLo(d)))

\* row i falls on index idx of the axis; on an axis of zero range every
\* row shares the one index
OnAxis(d, i, idx) == ZeroRange(d) \/ ClampedFloor(d, i) = idx

RowsOf(cell) ==
    {i \in Retained : OnAxis(HX, i, cell.x_index) /\ OnAxis(HY, i, cell.y_index)}

RECURSIVE SumAt(_, _)
SumAt(d, S) ==
    IF S = {} THEN 0
    ELSE LET i == CHOOSE j \in S : TRUE IN d[i] + SumAt(d, S \ {i})

CellCounts == [c \in DOMAIN sres.cells |-> sres.cells[c].count]

\* C13: for N rows without NaN (and a grid of at least one cell) only
\* occupied cells are emitted: at most min(N, gridSize^2) cells, no
\* (xIndex, yIndex) twice, each cell's count is the number of rows whose
\* clamped bin indices are the cell's, the counts sum to N, and avgValue is
\* the sum of those rows' values divided by the count.
C13_OccupiedCellsOnly ==
    (HeatOver /\ Retained = 1..Len(HX)) =>
        /\ ~sres.empty
        /\ Len(sres.cells) <= Len(HX)
        /\ Len(sres.cells) <= sreq.grid_size * sreq.grid_size
        /\ \A c, d \in DOMAIN sres.cells :
              (/\ sres.cells[c].x_index = sres.cells[d].x_index
               /\ sres.cells[c].y_index = sres.cells[d].y_index) => c = d
        /\ \A c \in DOMAIN sres.cells :
              LET cell == sres.cells[c]
              IN  /\ cell.count >= 1
                  /\ cell.count = Cardinality(RowsOf(cell))
                  /\ cell.avg_value.num * cell.count
                        = SumAt(HV, RowsOf(cell)) * cell.avg_value.den
        /\ SumSeq(CellCounts) = Len(HX)

\* three rows without NaN, two of them in one cell
C13_Witness ==
    /\ HeatOver /\ Retained = 1..Len(HX) /\ Len(HX) = 3
    /\ ~sres.empty /\ Len(sres.cells) = 2
    /\ \E c \in DOMAIN sres.cells :
          sres.cells[c].count = 2 /\ sres.cells[c].avg_value = [num |-> 15, den |-> 1]

\* the index on one axis that the statement gives the retained row i
AxisAsStated(d, i, idx) ==
    /\ d[i] = AxisLo(d) => idx = 0
    /\ d[i] = AxisHi(d) => idx = sreq.grid_size - 1
    /\ ~ZeroRange(d) => idx = ClampedFloor(d, i)

IndexesInGrid ==
    \A c \in DOMAIN sres.cells :
        /\ sres.cells[c].x_index \in 0..(sreq.grid_size - 1)
        /\ sres.cells[c].y_index \in 0..(sreq.grid_size - 1)

\* C14 (as stated): every retained point is binned at floor((coord - min) /
\* binSize) clamped to [0, gridSize-1]; every emitted index lies in
\* 0..gridSize-1, a point at the axis minimum gets index 0 and a point at
\* the axis maximum gets index gridSize-1.
C14_MinFirstMaxLast ==
    HeatOver =>
        /\ ~sres.empty
        /\ IndexesInGrid
        /\ \A i \in Retained : \E c \in DOMAIN sres.cells :
              /\ AxisAsStated(HX, i, sres.cells[c].x_index)
              /\ AxisAsStated(HY, i, sres.cells[c].y_index)

\* C14 (amended): on an axis whose retained coordinates are not all equal
\* every retained point is binned at floor((coord - min) / binSize) clamped
\* to [0, gridSize-1], a point at the minimum gets index 0 and a point at
\* the maximum gets index gridSize-1; on every axis every emitted index
\* lies in 0..gridSize-1.
C14_BinIndexClamped ==
    HeatOver =>
        /\ ~sres.empty
        /\ IndexesInGrid
        /\ \A i \in Retained : \E c \in DOMAIN sres.cells :
              /\ ~ZeroRange(HX) => AxisAsStated(HX, i, sres.cells[c].x_index)
              /\ ~ZeroRange(HY) => AxisAsStated(HY, i, sres.cells[c].y_index)
        /\ \A c \in DOMAIN sres.cells : RowsOf(sres.cells[c]) # {}

\* a grid of four bins per axis with a point at the maximum of both axes,
\* where the unclamped index would be 4
C14_Witness ==
    /\ HeatOver /\ ~sres.empty /\ sreq.grid_size = 4
    /\ ~ZeroRange(HX) /\ ~ZeroRange(HY)
    /\ \E i \in Retained : HX[i] = AxisHi(HX) /\ HY[i] = AxisHi(HY)
    /\ \E c \in DOMAIN sres.cells :
          sres.cells[c].x_index = 3 /\ sres.cells[c].y_index = 3

\* C15 (as stated): when the retained x values or the retained y values
\* are all equal, no division by zero is performed and the axis is a single
\* bin: the heatmap is not empty and all points have one index on it.
C15_ZeroRangeSingleBin ==
    (HeatOver /\ (ZeroRange(HX) \/ ZeroRange(HY))) =>
        /\ ~sres.empty
        /\ ~sres.divided_by_zero
        /\ ZeroRange(HX) =>
              \A c, d \in DOMAIN sres.cells :
                  sres.cells[c].x_index = sres.cells[d].x_index
        /\ ZeroRange(HY) =>
              \A c, d \in DOMAIN sres.cells :
                  sres.cells[c].y_index = sres.cells[d].y_index

\* the input of a statistic is empty or has no complete non-NaN entry
NothingToCompute ==
    IF HeatAsked
    THEN \/ Len(HX) = 0 \/ Len(HY) = 0 \/ Len(HV) = 0
         \/ SameLengths /\ Retained = {}
    ELSE ValidN = 0

\* the result is a well-formed histogram, box plot or heatmap
ValidStat ==
    /\ ~sres.empty
    /\ sreq.op = "histogram" => HistShape
    /\ sreq.op = "boxplot" =>
          /\ sres.q1 <= sres.median /\ sres.median <= sres.q3
          /\ sres.total_count = ValidN
    /\ sreq.op = "heatmap" => Len(sres.cells) >= 1 /\ IndexesInGrid

\* C16: compute_histogram, compute_boxplot and compute_heatmap never raise:
\* for empty, all-NaN or otherwise degenerate input (equal values, one
\* point, numBins or gridSize 0, arrays of different lengths) they return a
\* valid result or the empty result, and for empty or all-NaN input always
\* the empty result.
C16_StatisticsNeverRaise ==
    sreq.op # "none" =>
        /\ ~sres.raised
        /\ sres.empty \/ ValidStat
        /\ NothingToCompute => sres.empty

\* a heatmap asked with gridSize 0 over rows that are retained: the
\* division raises inside the function and the empty result is returned
C16_Witness ==
    /\ HeatAsked /\ SameLengths /\ Retained # {}
    /\ sreq.grid_size = 0
    /\ sres.empty /\ ~sres.raised

(***************************************************************************)
(* Properties of get_dataset_data.  The rows each fetch retains and the    *)
(* values of a column in them are written here from the table.             *)
(***************************************************************************)
GAsked == greq.op = "get_dataset_data"
GServed == GAsked /\ greq.store_up /\ greq.dataset_id \in datasets
GBoxed == Len(greq.bounding_box) \in {4, 6}
GViz == IF greq.columns = <<>> THEN <<"x", "y", "z">> ELSE greq.columns
GNumeric == NumericColumns(mappings)
GNumericNames == {mappings[i].column_name :
                    i \in {j \in DOMAIN mappings : mappings[j].column_type = 1}}

\* the columns a box is evaluated on: x, y, and z for a box of six numbers
BoxColumns(f) ==
    IF Len(greq.bounding_box) = 6 /\ Len(f) >= 3
    THEN {f[1], f[2], f[3]} ELSE {f[1], f[2]}

GRowInBox(row, f) ==
    /\ Within(row[f[1]], greq.bounding_box[1], greq.bounding_box[2])
    /\ Within(row[f[2]], greq.bounding_box[3], greq.bounding_box[4])
    /\ (Len(greq.bounding_box) = 6 /\ Len(f) >= 3) =>
          Within(row[f[3]], greq.bounding_box[5], greq.bounding_box[6])

\* a fetch of `columns` with the box on the columns f can be evaluated
FetchUsable(columns, f) ==
    /\ columns # <<>> /\ Range(columns) \subseteq TableCols
    /\ GBoxed => /\ Len(f) >= 2
                 /\ \A c \in BoxColumns(f) :
                       c \in Range(columns) /\ Dtype(c) # "object"

RowsKept(f) ==
    IF GBoxed THEN SelectSeq(table, LAMBDA row : GRowInBox(row, f)) ELSE table

\* the values of column c in the rows, as 32-bit floats
ColValues(rows, c) == [r \in DOMAIN rows |-> ToFloat32(rows[r][c])]

\* the rows the statistics fetch retains
StatFilter == FilterColumnsForBbox(mappings, GViz)
StatUsable == FetchUsable(GNumeric, StatFilter)
StatRows == RowsKept(StatFilter)

\* the buffer the visualization fetch returns
VizUsable == FetchUsable(GViz, GViz)
VizRows == RowsKept(GViz)
VizBuffer == IF VizUsable THEN RowMajor(VizRows, GViz) ELSE <<>>

\* C17: for every numeric column the histogram stored under its name and
\* the box plot carrying its name are computed from exactly that column's
\* values in the rows the statistics fetch retained.
C17_StatisticsOfOwnColumn ==
    GServed =>
        /\ \A c \in DOMAIN response.histograms :
              /\ c \in GNumericNames /\ StatUsable
              /\ response.histograms[c]
                    = Histogram(ColValues(StatRows, c), StatBins)
        /\ \A b \in DOMAIN response.box_plots :
              LET c == response.box_plots[b].column_name
              IN  /\ c \in GNumericNames /\ StatUsable
                  /\ response.box_plots[b].plot = Boxplot(ColValues(StatRows, c))
        /\ StatUsable =>
              \A c \in GNumericNames :
                  (\E r \in DOMAIN StatRows : ColValues(StatRows, c)[r] # NaN) =>
                      /\ c \in DOMAIN response.histograms
                      /\ \E b \in DOMAIN response.box_plots :
                            response.box_plots[b].column_name = c

\* statistics of three numeric columns listed in another order than the
\* visualization columns, over rows in which x and y differ
C17_Witness ==
    /\ GServed /\ GNumeric = <<"z", "y", "x">> /\ GBoxed
    /\ Len(StatRows) = 2
    /\ DOMAIN response.histograms = {"x", "y", "z"}
    /\ Len(response.box_plots) = 3
    /\ \E r \in DOMAIN StatRows : StatRows[r].x # StatRows[r].y
    /\ response.histograms["x"] # response.histograms["y"]

\* C18: whenever a heatmap is emitted its x, y and value inputs are the
\* data of the three visualization columns, located by name among the
\* numeric columns, so that x_column, y_column and value_column name the
\* columns whose data was aggregated.
C18_HeatmapColumnsByName ==
    (GServed /\ ~response.heatmap.empty) =>
        /\ Len(GViz) >= 3
        /\ \A i \in 1..3 : GViz[i] \in GNumericNames
        /\ response.heatmap
              = Heatmap(ColValues(StatRows, GViz[1]), ColValues(StatRows, GViz[2]),
                        ColValues(StatRows, GViz[3]),
                        GViz[1], GViz[2], GViz[3], StatGrid, greq.nan_cast)

\* C19: when the dataset has no column flagged numeric the statistics are
\* skipped and the request does not fail: the reply carries the
\* visualization buffer, the point count and the boundaries, and no
\* histogram, box plot or heatmap.
C19_NoNumericColumnsNoStatistics ==
    (GServed /\ GNumericNames = {}) =>
        /\ response.path = "ok"
        /\ response.data_length = Len(VizBuffer)
        /\ response.binary_data = ToBytes(VizBuffer)
        /\ response.total_count = Len(VizBuffer) \div 3
        /\ response.data_boundaries
              = (IF VizUsable /\ VizRows # <<>>
                 THEN ExpectedBoundaries(VizRows, GViz) ELSE <<>>)
        /\ response.histograms = <<>>
        /\ response.box_plots = <<>>
        /\ response.heatmap.empty

\* a dataset without numeric column asked for x, y, z of two rows
C19_Witness ==
    /\ GServed /\ GNumericNames = {} /\ mappings # <<>>
    /\ GViz = <<"x", "y", "z">> /\ Len(table) = 2
    /\ response.data_length = 6 /\ response.total_count = 2
    /\ DOMAIN response.data_boundaries = {"x", "y", "z"}
    /\ response.histograms = <<>>

\* the float32 number of a little-endian group of four bytes that encodes
\* NaN or a non-negative integer
FromBits(bits) ==
    IF bits = NaNBits THEN NaN
    ELSE IF bits = 0 THEN 0
    ELSE LET e == (bits \div Pow2(23)) - 127
             m == (bits % Pow2(23)) + Pow2(23)
         IN  IF e >= 23 THEN m * Pow2(e - 23) ELSE m \div Pow2(23 - e)

FromBytes(b) ==
    [k \in 1..(Len(b) \div 4) |->
        FromBits(b[4 * k - 3] + 256 * b[4 * k - 2] + 65536 * b[4 * k - 1]
                 + 16777216 * b[4 * k])]

\* C20: the reply carries the visualization buffer row-major as float32,
\* four bytes per value, data_length is the number of values, and the point
\* count is the buffer length divided by 3.
C20_BufferSerializedPointCount ==
    GAsked =>
        /\ Len(response.binary_data) = 4 * response.data_length
        /\ \A p \in DOMAIN response.binary_data :
              response.binary_data[p] \in 0..255
        /\ response.total_count = response.data_length \div 3
        /\ GServed =>
              /\ response.data_length = Len(VizBuffer)
              /\ FromBytes(response.binary_data) = VizBuffer

\* the four rows of scenario 1 asked for x, y, z: twelve values, 48 bytes,
\* four points
C20_Witness ==
    /\ GServed /\ table = Scenario1Table /\ ~GBoxed
    /\ GViz = <<"x", "y", "z">>
    /\ response.data_length = 12 /\ Len(response.binary_data) = 48
    /\ response.total_count = 4
    /\ FromBytes(response.binary_data)
          = <<0, 0, 10, 1, 1, 20, 2, 2, 30, 3, 3, 40>>

\* C28 (as stated): for every non-empty set of non-NaN values the box plot
\* is ordered lower_fence <= min <= q1 <= median <= q3 <= max <= upper_fence.
C28_BoxplotOrdered ==
    BoxAsked =>
        /\ ~sres.empty
        /\ sres.lower_fence <= sres.min
        /\ sres.min <= sres.q1
        /\ sres.q1 <= sres.median
        /\ sres.median <= sres.q3
        /\ sres.q3 <= sres.max
        /\ sres.max <= sres.upper_fence

\* C26 (as stated): in one get_dataset_data request with a bounding box the
\* visualization fetch and the statistics fetch retain the same rows: the
\* number of points per column of the statistics data equals the number of
\* points of the visualization payload, for every choice of visualization
\* columns and stored coordinate mappings.
C26_BothFetchesKeepSameRows ==
    (GServed /\ GBoxed /\ GNumeric # <<>> /\ response.path = "ok") =>
        response.num_points * Len(GViz) = response.data_length

(***************************************************************************)
(* Properties of the columnar stream, read off the chunks yielded so far   *)
(***************************************************************************)
StreamDone == stream.status = "done"

\* the chunks are numbered from 0 in the order they are yielded, each holds
\* at most 25000 points, and only a chunk numbered total_chunks - 1 is final
ChunksInOrder ==
    \A i \in DOMAIN chunks :
        /\ chunks[i].chunk_number = i - 1
        /\ chunks[i].points_in_chunk <= 25000
        /\ chunks[i].is_final_chunk = (i = chunks[i].total_chunks)

\* C29 (as stated): every columnar stream that completes without error is a
\* well-formed chunk sequence: chunk_number runs 0, 1, ..., total_chunks-1
\* in order, each chunk holds at most 25000 points, the points_in_chunk sum
\* to the number of generated points, is_final_chunk is false on every chunk
\* but the last, and the stream ends with exactly one final chunk, for every
\* max_points, 0 included.
C29_WellFormedChunkSequence ==
    /\ ChunksInOrder
    /\ StreamDone =>
        /\ \A i \in DOMAIN chunks : chunks[i].total_chunks = Len(chunks)
        /\ SumSeq([i \in DOMAIN chunks |-> chunks[i].points_in_chunk])
              = stream.total_points
        /\ Len(chunks) >= 1
        /\ chunks[Len(chunks)].is_final_chunk
        /\ Cardinality({i \in DOMAIN chunks : chunks[i].is_final_chunk}) = 1

(***************************************************************************)
(* Properties of the operations on the store                               *)
(***************************************************************************)
\* C30: when add_file_columns reports failure because a requested column
\* has a number of values different from the number of rows, the table is
\* as it was before the call: no column of the request has been added
C30_FailedAddLeavesTable ==
    (op.name = "add_file_columns" /\ ~op.success /\ op.error = "count") =>
        tables[op.file_id] = op.before

\* the column names in the mapping list of a dataset
MappedNames(d) ==
    {records[d].column_mappings[i].column_name :
        i \in DOMAIN records[d].column_mappings}

\* C24: on a file that has seen only successful column operations, every
\* mapped column name of every dataset of the file is a column of the
\* table, and the columns the last operation reports as added or
\* duplicated are mapped
C24_MappingsReflectColumns ==
    \A f \in op.clean : \A d \in DatasetsOf(records, f) :
        /\ MappedNames(d) \subseteq Range(tables[f].columns)
        /\ (op.file_id = f /\ op.success /\ op.name \in ColumnOps) =>
              Range(op.added) \subseteq MappedNames(d)

DataChangingOps ==
    {"replace_file_data", "filter_file_data", "delete_file_points",
     "add_filtered_column", "add_file_columns", "duplicate_file_columns",
     "delete_file_columns", "rename_file_column"}

\* C23: with an EDA manager, after a data-changing operation that succeeded
\* and changed the table, the stored statistics of every dataset of the
\* file are the statistics of the table as the operation committed it
C23_StatisticsOfCommittedTable ==
    (eda_manager /\ op.name \in DataChangingOps /\ op.success
        /\ tables[op.file_id] # op.before) =>
        \A d \in DatasetsOf(records, op.file_id) :
            column_stats[d] = ColumnStatistics(tables[op.file_id])

\* C25: once delete_file has succeeded for a file, no Dataset record and no
\* DatasetColumnStats record of a dataset of that file remains, and a later
\* fetch for one of those datasets returns the empty not-found result
C25_DeletedFileLeavesNoDataset ==
    /\ \A d \in op.deleted : d \notin DOMAIN records /\ column_stats[d] = <<>>
    /\ (op.name = "delete_file" /\ op.success) =>
          DatasetsOf(records, op.file_id) = {}
    /\ (op.name = "fetch" /\ op.dataset_id \in op.deleted) =>
          op.result = NotFoundReturn

\* a dataset of a deleted file has been fetched and was not found
C25_Witness ==
    /\ op.name = "fetch"
    /\ op.dataset_id \in op.deleted
    /\ op.result = NotFoundReturn

(***************************************************************************)
(* Properties of the concurrent calls                                      *)
(***************************************************************************)
\* C21: every session and every connection a fetch has opened is released
\* when the read it was opened for is over, and so before the fetch
\* returns, whether it returns data, finds no dataset, no row or no row in
\* the box, or an exception is raised by the query or the processing
C21_HandlesReleased == \A p \in DOMAIN procs : procs[p].handles = {}

\* a fetch whose query raised an exception has returned
C21_Witness ==
    \E p \in DOMAIN procs :
        /\ procs[p].results # <<>>
        /\ procs[p].results[1] = ExceptReturn
        /\ ~procs[p].seen[1].exists
        /\ procs[p].handles = {}

\* the fetch the thread is in, made alone against the store as it is now
FetchAlone(proc) ==
    StoreFetch(records, tables, proc.dataset_id, FetchColumns(proc, proc.fetch),
               proc.bounding_box, FetchFilterColumns(proc, proc.fetch))

\* the step ends a fetch of thread p
FetchReturns(p) == Len(procs'[p].results) > Len(procs[p].results)

C27_PayloadAndStatisticsSameTable ==
    \A p \in DOMAIN procs :
        (procs[p].at = "done" /\ Len(procs[p].seen) = 2
            /\ procs[p].results[1].path # "not_found"
            /\ procs[p].results[2].path # "not_found") =>
            procs[p].seen[1] = procs[p].seen[2]

====
